---------------------------- MODULE Spec2Model ----------------------------
(***************************************************************************)
(* A model of the baseball trajectory engine (utils/physics) and of its   *)
(* callers.                                                                *)
(*                                                                         *)
(* Numbers.  The program computes in IEEE doubles.  The model computes in  *)
(* decimal fixed point: a real r is the integer round(r * SCALE), with     *)
(* SCALE = 10^5, so lengths have a resolution of 0.01 mm.  FMul, FDiv and  *)
(* FSqrt round to the nearest unit, the way the floating-point operations  *)
(* round to the nearest double; they are written so that no intermediate   *)
(* value leaves the 32-bit integers of the model checker (an overflow is   *)
(* reported as an error, never wrapped).  Both time steps (0.01 s and      *)
(* 0.002 s) and both time caps (20 s and 5 s) are exact in this            *)
(* representation, so elapsed time is computed without rounding.           *)
(*                                                                         *)
(* An optional value (undefined or an object) is a sequence of length at   *)
(* most one.  The samples of a trajectory are only ever appended; the      *)
(* model keeps their number, the first sample, the last two, and the       *)
(* greatest y of all of them (top).                                        *)
(*                                                                         *)
(* History.  The fields walls, bounces and rolls of the batted ball, and   *)
(* crossings of the pitched ball, count events of the run (wall            *)
(* reflections, ground bounces, rolling updates, steps that take z from    *)
(* >= 0 to < 0); peak is the greatest height sampled since the last ground *)
(* bounce and peaks holds that of the last two completed arcs; sims of the *)
(* solver counts the simulations it has called.  The                       *)
(* program does not keep them and no operation reads them; they let a      *)
(* property speak of what has happened.                                    *)
(*                                                                         *)
(* Specifications.  Spec is the engine called with arguments of its own;   *)
(* TripSpec is the round trip of the specification's solver test: a pitch  *)
(* is simulated, the solver is given its plate crossing as the target, and *)
(* the angles it returns are simulated again; UiSpec is the Controls       *)
(* component editing the pitching parameters through handlePitchingChange, *)
(* which calls the solver or one simulation; PlaySpec is App with the      *)
(* playback of SceneContent: the Play and Stop buttons, the timer of the   *)
(* loop restart, the frames, a change of mode and an edit of the pitch     *)
(* velocity to 0, each followed by the render that computes the trajectory *)
(* and runs the playback effect; PlayFairSpec is PlaySpec with frames that *)
(* keep rendering, timers that fire and renders that end.                  *)
(*                                                                         *)
(* Playback.  A handler runs to its end before the next event, and the     *)
(* render it causes is committed with its effects before the next event,   *)
(* so isLoopingRef is isLooping.  Time passes in frames of FrameDt; a      *)
(* timer holds the time it has left, and startTime the time since          *)
(* startTimeRef (empty for -1), which is not followed while the scene is   *)
(* idle, where nothing reads it.  Of the history of App, stopped says that *)
(* Stop was the last button pressed, last names the last handler or render *)
(* that ran (complete: a frame that invoked onAnimationComplete), frame is *)
(* the parity of the number of frames of the playback in progress, and a   *)
(* timer records whether Stop was pressed while it was pending.            *)
(***************************************************************************)
EXTENDS Integers, Sequences, FiniteSets, TLC

(***************************************************************************)
(* Fixed-point arithmetic                                                  *)
(***************************************************************************)
SCALE == 100 * 1000

Abs(a) == IF a < 0 THEN -a ELSE a

Sgn(a) == IF a < 0 THEN -1 ELSE IF a > 0 THEN 1 ELSE 0

Min(a, b) == IF a < b THEN a ELSE b

Max(a, b) == IF a > b THEN a ELSE b

\* round(a / b) for integers a and b > 0, half away from zero
RoundDiv(a, b) == Sgn(a) * ((Abs(a) + (b \div 2)) \div b)

\* round(a * b / SCALE) for a, b >= 0, by limbs: a = ah*SCALE + a1*1000 + a0
MulNat(a, b) ==
    LET ah == a \div SCALE
        al == a % SCALE
        bh == b \div SCALE
        bl == b % SCALE
        a1 == al \div 1000
        a0 == al % 1000
        b1 == bl \div 1000
        b0 == bl % 1000
    IN  ah * b + al * bh + a1 * b1 * 10
          + (((a1 * b0 + a0 * b1) * 1000 + a0 * b0 + (SCALE \div 2)) \div SCALE)

\* the product a * b of two reals
FMul(a, b) == IF a = 0 \/ b = 0 THEN 0 ELSE Sgn(a) * Sgn(b) * MulNat(Abs(a), Abs(b))

\* long division: n more decimal digits of the quotient q, remainder r < b
RECURSIVE DivDigits(_, _, _, _)
DivDigits(q, r, b, n) ==
    IF n = 0
    THEN IF 2 * r >= b THEN q + 1 ELSE q
    ELSE DivDigits(q * 10 + ((r * 10) \div b), (r * 10) % b, b, n - 1)

\* round(a * SCALE / b) for a >= 0, b > 0; a divisor above 2000 is first
\* brought below it, dropping its last digit
DivNat(a, b) ==
    IF b >= 2000 * SCALE
    THEN LET a10 == (a + 5) \div 10
             b10 == (b + 5) \div 10
         IN  DivDigits(a10 \div b10, a10 % b10, b10, 5)
    ELSE DivDigits(a \div b, a % b, b, 5)

\* the quotient a / b of two reals, b # 0
FDiv(a, b) == IF a = 0 THEN 0 ELSE Sgn(a) * Sgn(b) * DivNat(Abs(a), Abs(b))

\* Newton's iteration for the square root of a > 0, from a guess g above it
RECURSIVE SqrtIter(_, _)
SqrtIter(a, g) ==
    LET h == (g + DivNat(a, g)) \div 2
    IN  IF h >= g THEN g ELSE SqrtIter(a, h)

SqrtGuess(a) ==
    IF a <= 100 * SCALE THEN 10 * SCALE + 1
    ELSE IF a <= 10000 * SCALE THEN 100 * SCALE + 1
    ELSE 147 * SCALE

\* Math.sqrt
FSqrt(a) == IF a <= 0 THEN 0 ELSE SqrtIter(a, SqrtGuess(a))

\* Math.sqrt(a*a + b*b); beyond 100 the sum of squares is formed on tenths,
\* so that it stays representable
Hypot(a, b) ==
    IF Abs(a) > 100 * SCALE \/ Abs(b) > 100 * SCALE
    THEN 10 * FSqrt(FMul(RoundDiv(a, 10), RoundDiv(a, 10))
                      + FMul(RoundDiv(b, 10), RoundDiv(b, 10)))
    ELSE FSqrt(FMul(a, a) + FMul(b, b))

\* the decimal literal n / d
R(n, d) == (n * SCALE) \div d

\* a quotient that is only compared with 0 and 1: outside [-1, 1] it is
\* represented by +-2
Quot(n, d) ==
    IF Abs(n) > Abs(d) THEN Sgn(n) * Sgn(d) * 2 * SCALE ELSE FDiv(n, d)

(***************************************************************************)
(* Trigonometry, on reals in radians                                       *)
(***************************************************************************)
PI == 314159

\* an angle brought into (-PI, PI]
WrapAngle(x) ==
    LET m == x % (2 * PI)
    IN  IF m > PI THEN m - 2 * PI ELSE m

\* an angle of (-PI, PI] brought into [-PI/2, PI/2] with the same sine
FoldAngle(w) ==
    IF w > PI \div 2 THEN PI - w
    ELSE IF w < -(PI \div 2) THEN -PI - w
    ELSE w

\* the Taylor series of the sine from its k-th term on
RECURSIVE SinSum(_, _, _)
SinSum(term, x2, k) ==
    IF term = 0 \/ k > 8
    THEN 0
    ELSE term + SinSum(-RoundDiv(FMul(term, x2), (2 * k) * (2 * k + 1)), x2, k + 1)

\* Math.sin
Sin(x) ==
    LET f == FoldAngle(WrapAngle(x))
    IN  SinSum(f, FMul(f, f), 1)

\* Math.cos
Cos(x) == Sin(x + (PI \div 2))

\* the Taylor series of the arc tangent from the term of power k on, p = r^k
RECURSIVE AtanSum(_, _, _)
AtanSum(p, r2, k) ==
    IF p = 0 \/ k > 13
    THEN 0
    ELSE RoundDiv(p, k) - AtanSum(FMul(p, r2), r2, k + 2)

\* Math.atan on [0, 1], by atan(r) = 2 * atan(r / (1 + sqrt(1 + r^2)))
AtanUnit(r) ==
    LET h == FDiv(r, SCALE + FSqrt(SCALE + FMul(r, r)))
    IN  2 * AtanSum(h, FMul(h, h), 1)

\* Math.atan2
Atan2(y, x) ==
    LET base == IF Abs(y) <= Abs(x)
                THEN AtanUnit(FDiv(Abs(y), Abs(x)))
                ELSE (PI \div 2) - AtanUnit(FDiv(Abs(x), Abs(y)))
    IN  IF x = 0 /\ y = 0 THEN 0
        ELSE IF x >= 0 THEN Sgn(y) * base
        ELSE IF y >= 0 THEN PI - base
        ELSE -(PI - base)

\* rad * (180 / Math.PI)
RadToDeg(r) == FMul(r, FDiv(R(180, 1), PI))

\* deg * (Math.PI / 180), evaluated as (deg * PI) / 180 to keep the
\* precision of the fixed-point representation
DegToRad(d) == FDiv(FMul(d, PI), 180 * SCALE)

(***************************************************************************)
(* Constants of utils/physics                                              *)
(***************************************************************************)
GRAVITY == R(981, 100)

AIR_DENSITY == R(1225, 1000)

BALL_MASS == R(145, 1000)

BALL_RADIUS == R(37, 1000)

BALL_AREA == FMul(PI, FMul(BALL_RADIUS, BALL_RADIUS))

DRAG_COEFFICIENT == R(30, 100)

BATTING_LIFT_COEFFICIENT == R(15, 100)

MOUND_DISTANCE == R(1844, 100)

CATCHER_DEPTH == R(15, 10)

WALL_HEIGHT == R(4, 1)

COR_GROUND == R(45, 100)

COR_WALL == R(7, 10)

STOP_VELOCITY == R(1, 10)

FRICTION_BOUNCE == R(92, 100)

MU_ROLLING == R(25, 100)

WALL_SEGMENTS ==
    << [x1 |-> R(-7071, 100), z1 |-> R(7071, 100), x2 |-> R(-421, 10), z2 |-> R(1016, 10)],
       [x1 |-> R(-421, 10), z1 |-> R(1016, 10), x2 |-> 0, z2 |-> R(122, 1)],
       [x1 |-> 0, z1 |-> R(122, 1), x2 |-> R(421, 10), z2 |-> R(1016, 10)],
       [x1 |-> R(421, 10), z1 |-> R(1016, 10), x2 |-> R(7071, 100), z2 |-> R(7071, 100)] >>

\* the trajectory samples: none yet
NoPoints == [len |-> 0, first |-> <<>>, prev |-> <<>>, last |-> <<>>, top |-> 0]

\* points.push(p)
Push(points, p) ==
    [len |-> points.len + 1,
     first |-> IF points.len = 0 THEN <<p>> ELSE points.first,
     prev |-> points.last,
     last |-> <<p>>,
     top |-> IF points.len = 0 THEN p.y ELSE Max(points.top, p.y)]

(***************************************************************************)
(* calculateTrajectory: the batted ball                                    *)
(***************************************************************************)
BatDt == R(1, 100)

BatMaxTime == R(20, 1)

\* the state at the loop's entry, for the arguments c
BatEntry(c) ==
    LET v0 == FMul(c.velocityKmh, FDiv(R(1000, 1), R(3600, 1)))
        theta == DegToRad(c.launchAngleDeg)
        phi == DegToRad(-c.sprayAngleDeg)
        windRad == DegToRad(c.windDirectionDeg)
    IN  [pc |-> "loop",
         vx |-> FMul(FMul(v0, Cos(theta)), Sin(phi)),
         vy |-> FMul(v0, Sin(theta)),
         vz |-> FMul(FMul(v0, Cos(theta)), Cos(phi)),
         wx |-> FMul(-c.windSpeedMs, Sin(windRad)),
         wz |-> FMul(c.windSpeedMs, Cos(windRad)),
         wy |-> 0,
         x |-> 0, y |-> R(5, 10), z |-> 0, t |-> 0,
         points |-> NoPoints,
         maxHeight |-> R(5, 10),
         carryDistance |-> 0,
         landingPosition |-> <<>>,
         hasHitGround |-> FALSE,
         walls |-> 0, bounces |-> 0, rolls |-> 0,
         launchAngleDeg |-> c.launchAngleDeg,
         peak |-> 0, peaks |-> <<>>,
         result |-> <<>>]

\* the acceleration of the step: gravity, and drag and lift above 0.1 m/s
BatAccel(s) ==
    LET vrx == s.vx - s.wx
        vry == s.vy - s.wy
        vrz == s.vz - s.wz
        vRelTotal == FSqrt(FMul(vrx, vrx) + FMul(vry, vry) + FMul(vrz, vrz))
        Fd == FMul(FMul(FMul(FMul(R(5, 10), AIR_DENSITY), FMul(vRelTotal, vRelTotal)),
                        DRAG_COEFFICIENT), BALL_AREA)
        ad == FDiv(Fd, BALL_MASS)
        axDrag == FMul(-ad, FDiv(vrx, vRelTotal))
        ayDrag == FMul(-ad, FDiv(vry, vRelTotal))
        azDrag == FMul(-ad, FDiv(vrz, vRelTotal))
        Fl == FMul(FMul(FMul(FMul(R(5, 10), AIR_DENSITY), FMul(vRelTotal, vRelTotal)),
                        BATTING_LIFT_COEFFICIENT), BALL_AREA)
        al == FDiv(Fl, BALL_MASS)
        vHorizontal == FSqrt(FMul(s.vx, s.vx) + FMul(s.vz, s.vz))
        vTotal == FSqrt(FMul(vHorizontal, vHorizontal) + FMul(s.vy, s.vy))
        ayLift == IF s.y > R(5, 100) /\ vTotal > 0
                  THEN FMul(al, FDiv(vHorizontal, vTotal))
                  ELSE 0
    IN  IF vRelTotal > R(1, 10)
        THEN [ax |-> axDrag + 0, ay |-> -GRAVITY + ayDrag + ayLift, az |-> azDrag]
        ELSE [ax |-> 0, ay |-> -GRAVITY, az |-> 0]

\* the sample is recorded, then velocity, position and time advance by dt
BatIntegrate(s) ==
    LET a == BatAccel(s)
        vx == s.vx + FMul(a.ax, BatDt)
        vy == s.vy + FMul(a.ay, BatDt)
        vz == s.vz + FMul(a.az, BatDt)
    IN  [s EXCEPT !.points = Push(s.points, [x |-> s.x, y |-> s.y, z |-> s.z, t |-> s.t]),
                  !.maxHeight = IF s.y > s.maxHeight THEN s.y ELSE s.maxHeight,
                  !.peak = IF s.y > s.peak THEN s.y ELSE s.peak,
                  !.vx = vx, !.vy = vy, !.vz = vz,
                  !.x = s.x + FMul(vx, BatDt),
                  !.y = s.y + FMul(vy, BatDt),
                  !.z = s.z + FMul(vz, BatDt),
                  !.t = s.t + BatDt]

getLineIntersection(p0_x, p0_y, p1_x, p1_y, p2_x, p2_y, p3_x, p3_y) ==
    LET s1_x == p1_x - p0_x
        s1_y == p1_y - p0_y
        s2_x == p3_x - p2_x
        s2_y == p3_y - p2_y
        den == FMul(-s2_x, s1_y) + FMul(s1_x, s2_y)
        s == Quot(FMul(-s1_y, p0_x - p2_x) + FMul(s1_x, p0_y - p2_y), den)
        t == Quot(FMul(s2_x, p0_y - p2_y) - FMul(s2_y, p0_x - p2_x), den)
    IN  IF den # 0 /\ s >= 0 /\ s <= SCALE /\ t >= 0 /\ t <= SCALE
        THEN << [x |-> p0_x + FMul(t, s1_x), z |-> p0_y + FMul(t, s1_y)] >>
        ELSE <<>>

\* the unit normal of a wall segment that points to the side of the origin
WallNormal(seg) ==
    LET dx == seg.x2 - seg.x1
        dz == seg.z2 - seg.z1
        len == FSqrt(FMul(dx, dx) + FMul(dz, dz))
        midX == FDiv(seg.x1 + seg.x2, R(2, 1))
        midZ == FDiv(seg.z1 + seg.z2, R(2, 1))
        nx == FDiv(-dz, len)
        nz == FDiv(dx, len)
    IN  IF FMul(nx, midX) + FMul(nz, midZ) > 0
        THEN [nx |-> -nx, nz |-> -nz]
        ELSE [nx |-> nx, nz |-> nz]

\* the first wall segment the step prev -> (x, z) intersects, 0 if none
HitSegment(prevX, prevZ, x, z) ==
    LET hits == {i \in 1..Len(WALL_SEGMENTS) :
                   getLineIntersection(prevX, prevZ, x, z,
                       WALL_SEGMENTS[i].x1, WALL_SEGMENTS[i].z1,
                       WALL_SEGMENTS[i].x2, WALL_SEGMENTS[i].z2) # <<>>}
    IN  IF hits = {} THEN 0 ELSE CHOOSE i \in hits : \A j \in hits : i <= j

\* the wall is tested beyond z = 60 and between the ground and its top
WallTested(s) == s.z > R(60, 1) /\ s.y >= 0 /\ s.y <= WALL_HEIGHT

\* mutant: the reflection keeps the whole horizontal speed
BatWallUndamped(s, prevX, prevZ) ==
    LET i == HitSegment(prevX, prevZ, s.x, s.z)
        seg == WALL_SEGMENTS[i]
        intersect == getLineIntersection(prevX, prevZ, s.x, s.z,
                                         seg.x1, seg.z1, seg.x2, seg.z2)[1]
        n == WallNormal(seg)
        vDotN == FMul(s.vx, n.nx) + FMul(s.vz, n.nz)
    IN  IF WallTested(s) /\ i # 0 /\ vDotN < 0
        THEN [s EXCEPT !.vx = s.vx - FMul(FMul(R(2, 1), vDotN), n.nx),
                       !.vz = s.vz - FMul(FMul(R(2, 1), vDotN), n.nz),
                       !.vy = FMul(s.vy, R(8, 10)),
                       !.x = intersect.x + FMul(n.nx, R(2, 10)),
                       !.z = intersect.z + FMul(n.nz, R(2, 10)),
                       !.walls = s.walls + 1]
        ELSE s

\* 1. wall collision, of the step that came from (prevX, prevZ)
BatWall(s, prevX, prevZ) ==
    LET i == HitSegment(prevX, prevZ, s.x, s.z)
        seg == WALL_SEGMENTS[i]
        intersect == getLineIntersection(prevX, prevZ, s.x, s.z,
                                         seg.x1, seg.z1, seg.x2, seg.z2)[1]
        n == WallNormal(seg)
        vDotN == FMul(s.vx, n.nx) + FMul(s.vz, n.nz)
    IN  IF WallTested(s) /\ i # 0 /\ vDotN < 0
        THEN [s EXCEPT !.vx = FMul(s.vx - FMul(FMul(R(2, 1), vDotN), n.nx), COR_WALL),
                       !.vz = FMul(s.vz - FMul(FMul(R(2, 1), vDotN), n.nz), COR_WALL),
                       !.vy = FMul(s.vy, R(8, 10)),
                       !.x = intersect.x + FMul(n.nx, R(2, 10)),
                       !.z = intersect.z + FMul(n.nz, R(2, 10)),
                       !.walls = s.walls + 1]
        ELSE s

\* the ball is on or below the ground
OnGround(s) == s.y <= 0

\* mutant: every ground contact writes the carry distance and the landing position
BatLandingEveryContact(s) ==
    [s EXCEPT !.hasHitGround = TRUE,
              !.carryDistance = Hypot(s.x, s.z),
              !.landingPosition = << [x |-> s.x, y |-> 0, z |-> s.z] >>]

\* the first ground contact fixes the carry distance and the landing position
BatLanding(s) ==
    IF ~s.hasHitGround
    THEN [s EXCEPT !.hasHitGround = TRUE,
                   !.carryDistance = Hypot(s.x, s.z),
                   !.landingPosition = << [x |-> s.x, y |-> 0, z |-> s.z] >>]
    ELSE s

\* mutant: the rolling branch leaves the vertical velocity as it is
BatRollKeepsVy(s) ==
    LET speedXZ == FSqrt(FMul(s.vx, s.vx) + FMul(s.vz, s.vz))
        deceleration == FMul(MU_ROLLING, GRAVITY)
        speedLoss == FMul(deceleration, BatDt)
        newSpeed == speedXZ - speedLoss
        ratio == FDiv(newSpeed, speedXZ)
    IN  IF speedXZ > 0
        THEN IF speedXZ <= speedLoss + STOP_VELOCITY
             THEN [s EXCEPT !.vx = 0, !.vz = 0, !.pc = "break"]
             ELSE [s EXCEPT !.vx = FMul(s.vx, ratio), !.vz = FMul(s.vz, ratio),
                            !.rolls = s.rolls + 1]
        ELSE [s EXCEPT !.pc = "break"]

\* mutant: the stop test leaves the loss of the step out of the threshold
BatRollStopsLate(s) ==
    LET speedXZ == FSqrt(FMul(s.vx, s.vx) + FMul(s.vz, s.vz))
        deceleration == FMul(MU_ROLLING, GRAVITY)
        speedLoss == FMul(deceleration, BatDt)
        newSpeed == speedXZ - speedLoss
        ratio == FDiv(newSpeed, speedXZ)
    IN  IF speedXZ > 0
        THEN IF speedXZ <= STOP_VELOCITY
             THEN [s EXCEPT !.vy = 0, !.vx = 0, !.vz = 0, !.pc = "break"]
             ELSE [s EXCEPT !.vy = 0, !.vx = FMul(s.vx, ratio), !.vz = FMul(s.vz, ratio),
                            !.rolls = s.rolls + 1]
        ELSE [s EXCEPT !.vy = 0, !.pc = "break"]

\* rolling: friction takes speedLoss off the horizontal speed, or the ball stops
BatRoll(s) ==
    LET speedXZ == FSqrt(FMul(s.vx, s.vx) + FMul(s.vz, s.vz))
        deceleration == FMul(MU_ROLLING, GRAVITY)
        speedLoss == FMul(deceleration, BatDt)
        newSpeed == speedXZ - speedLoss
        ratio == FDiv(newSpeed, speedXZ)
    IN  IF speedXZ > 0
        THEN IF speedXZ <= speedLoss + STOP_VELOCITY
             THEN [s EXCEPT !.vy = 0, !.vx = 0, !.vz = 0, !.pc = "break"]
             ELSE [s EXCEPT !.vy = 0, !.vx = FMul(s.vx, ratio), !.vz = FMul(s.vz, ratio),
                            !.rolls = s.rolls + 1]
        ELSE [s EXCEPT !.vy = 0, !.pc = "break"]

\* history: the peaks of the arc that ends with this bounce and of the one before
ArcPeaks(s) == IF s.peaks = <<>> THEN <<s.peak>> ELSE <<s.peak, s.peaks[1]>>

\* mutant: the ground returns more vertical speed than it receives
BatBounceGains(s) ==
    [s EXCEPT !.vy = FMul(-s.vy, R(1, 1) + COR_GROUND),
              !.vx = FMul(s.vx, FRICTION_BOUNCE),
              !.vz = FMul(s.vz, FRICTION_BOUNCE),
              !.bounces = s.bounces + 1,
              !.peak = 0, !.peaks = ArcPeaks(s)]

\* mutant: the bounce also rewinds the clock to the middle of the step
BatBounceRewinds(s) ==
    [s EXCEPT !.vy = FMul(-s.vy, COR_GROUND),
              !.vx = FMul(s.vx, FRICTION_BOUNCE),
              !.vz = FMul(s.vz, FRICTION_BOUNCE),
              !.bounces = s.bounces + 1,
              !.peak = 0, !.peaks = ArcPeaks(s),
              !.t = s.t - (BatDt \div 2)]

\* bouncing: the vertical velocity is inverted and both are damped
BatBounce(s) ==
    [s EXCEPT !.vy = FMul(-s.vy, COR_GROUND),
              !.vx = FMul(s.vx, FRICTION_BOUNCE),
              !.vz = FMul(s.vz, FRICTION_BOUNCE),
              !.bounces = s.bounces + 1,
              !.peak = 0, !.peaks = ArcPeaks(s)]

\* mutant: the height is not clamped
GroundClampMissing(y) == y

\* the height the ground collision leaves
GroundClamp(y) == 0

\* 2. ground collision
BatGround(s) ==
    IF OnGround(s)
    THEN LET g == BatLanding([s EXCEPT !.y = GroundClamp(s.y)])
         IN  IF Abs(g.vy) < R(1, 1) THEN BatRoll(g) ELSE BatBounce(g)
    ELSE s

\* one iteration of the loop
BatBody(s) == BatGround(BatWall(BatIntegrate(s), s.x, s.z))

\* mutant: the cap is tested with <= and lets one more step through
BatLoopCondInclusive(s) == s.t <= BatMaxTime

\* while (t < maxTime)
BatLoopCond(s) == s.t < BatMaxTime

\* the returned TrajectoryResult
BatResult(s) ==
    [points |-> s.points,
     distance |-> IF ~s.hasHitGround THEN Hypot(s.x, s.z) ELSE s.carryDistance,
     maxHeight |-> s.maxHeight,
     hangTime |-> s.t,
     landingPosition |-> s.landingPosition]

BatIdle == [pc |-> "idle"]

\* the arguments of the calls of calculateTrajectory
BatCases ==
    << [velocityKmh |-> R(160, 1), launchAngleDeg |-> R(30, 1), sprayAngleDeg |-> 0,
        windSpeedMs |-> 0, windDirectionDeg |-> 0],
       [velocityKmh |-> R(200, 1), launchAngleDeg |-> R(5, 1), sprayAngleDeg |-> 0,
        windSpeedMs |-> R(20, 1), windDirectionDeg |-> 0],
       [velocityKmh |-> R(150, 1), launchAngleDeg |-> R(15, 1), sprayAngleDeg |-> R(20, 1),
        windSpeedMs |-> 0, windDirectionDeg |-> 0],
       [velocityKmh |-> 0, launchAngleDeg |-> 0, sprayAngleDeg |-> 0,
        windSpeedMs |-> 0, windDirectionDeg |-> 0],
       [velocityKmh |-> R(100, 1), launchAngleDeg |-> R(-45, 1), sprayAngleDeg |-> R(-45, 1),
        windSpeedMs |-> R(5, 1), windDirectionDeg |-> R(90, 1)],
       [velocityKmh |-> R(60, 1), launchAngleDeg |-> R(80, 1), sprayAngleDeg |-> R(45, 1),
        windSpeedMs |-> R(10, 1), windDirectionDeg |-> R(180, 1)],
       [velocityKmh |-> 0, launchAngleDeg |-> 0, sprayAngleDeg |-> 0,
        windSpeedMs |-> R(30, 1), windDirectionDeg |-> 0],
       [velocityKmh |-> R(120, 1), launchAngleDeg |-> R(10, 1), sprayAngleDeg |-> R(-30, 1),
        windSpeedMs |-> R(8, 1), windDirectionDeg |-> R(270, 1)] >>

MaxBatCase == 7

BatInputs == {BatCases[i] : i \in 1..Min(MaxBatCase, Len(BatCases))}

(***************************************************************************)
(* calculatePitchTrajectory: the pitched ball                              *)
(***************************************************************************)
PitchDt == R(2, 1000)

MAX_SIMULATION_TIME == R(5, 1)

\* velocity <= 0.1: a single sample at the release point, nothing integrated
PitchDegenerate(params) ==
    LET rx == FDiv(params.releaseSide, R(100, 1))
        ry == params.releaseHeight
    IN  [points |-> Push(NoPoints,
                        [x |-> rx, y |-> ry,
                         z |-> MOUND_DISTANCE - FDiv(params.extension, R(100, 1)),
                         t |-> 0, breakX |-> 0, breakY |-> 0]),
         distance |-> 0,
         maxHeight |-> params.releaseHeight,
         hangTime |-> 0,
         finalPosition |-> << [x |-> rx, y |-> ry] >>,
         plateCrossing |-> << [x |-> rx, y |-> ry] >>]

\* mutant: the release point ignores the extension
PitchEntryAtRubber(params) ==
    LET v0 == FMul(params.velocity, FDiv(R(1000, 1), R(3600, 1)))
        hRad == DegToRad(params.hAngle)
        vRad == DegToRad(params.vAngle)
        trueSpin == FMul(params.spinRate, FDiv(params.spinEfficiency, R(100, 1)))
    IN  [pc |-> "loop",
         params |-> params,
         x |-> FDiv(params.releaseSide, R(100, 1)),
         y |-> params.releaseHeight, z |-> MOUND_DISTANCE, t |-> 0,
         vx |-> FMul(FMul(v0, Sin(hRad)), Cos(vRad)),
         vy |-> FMul(v0, Sin(vRad)),
         vz |-> FMul(FMul(-v0, Cos(hRad)), Cos(vRad)),
         omega |-> FDiv(FMul(FMul(trueSpin, R(2, 1)), PI), R(60, 1)),
         points |-> NoPoints,
         maxHeight |-> params.releaseHeight,
         plateCrossing |-> <<>>,
         vBreakX |-> 0, vBreakY |-> 0,
         currentBreakX |-> 0, currentBreakY |-> 0,
         crossings |-> 0,
         result |-> <<>>]

\* the state at the loop's entry
PitchEntry(params) ==
    LET v0 == FMul(params.velocity, FDiv(R(1000, 1), R(3600, 1)))
        extensionM == FDiv(params.extension, R(100, 1))
        sideM == FDiv(params.releaseSide, R(100, 1))
        heightM == params.releaseHeight
        startZ == MOUND_DISTANCE - extensionM
        hRad == DegToRad(params.hAngle)
        vRad == DegToRad(params.vAngle)
        trueSpin == FMul(params.spinRate, FDiv(params.spinEfficiency, R(100, 1)))
    IN  [pc |-> "loop",
         params |-> params,
         x |-> sideM, y |-> heightM, z |-> startZ, t |-> 0,
         vx |-> FMul(FMul(v0, Sin(hRad)), Cos(vRad)),
         vy |-> FMul(v0, Sin(vRad)),
         vz |-> FMul(FMul(-v0, Cos(hRad)), Cos(vRad)),
         omega |-> FDiv(FMul(FMul(trueSpin, R(2, 1)), PI), R(60, 1)),
         points |-> NoPoints,
         maxHeight |-> heightM,
         plateCrossing |-> <<>>,
         vBreakX |-> 0, vBreakY |-> 0,
         currentBreakX |-> 0, currentBreakY |-> 0,
         crossings |-> 0,
         result |-> <<>>]

\* mutant: the degenerate case is tested with < and misses velocity = 0.1
PitchStartStrict(params) ==
    IF params.velocity < R(1, 10)
    THEN [pc |-> "done", params |-> params, result |-> <<PitchDegenerate(params)>>]
    ELSE PitchEntry(params)

\* the call: the degenerate result at once, or the loop's entry
PitchStart(params) ==
    IF params.velocity <= R(1, 10)
    THEN [pc |-> "done", params |-> params, result |-> <<PitchDegenerate(params)>>]
    ELSE PitchEntry(params)

\* the sample of the current state, the break in cm
PitchSample(s) ==
    [x |-> s.x, y |-> s.y, z |-> s.z, t |-> s.t,
     breakX |-> FMul(s.currentBreakX, R(100, 1)),
     breakY |-> FMul(s.currentBreakY, R(100, 1))]

\* points.push at the loop's top, and the running maximum of the height
PitchRecord(s) ==
    [s EXCEPT !.points = Push(s.points, PitchSample(s)),
              !.maxHeight = IF s.y > s.maxHeight THEN s.y ELSE s.maxHeight]

\* mutant: the ground does not end the loop
PitchBreaksFailsafeOnly(s) == s.t > MAX_SIMULATION_TIME

\* the two breaks of the loop: the failsafe and the ground
PitchBreaks(s) == s.t > MAX_SIMULATION_TIME \/ s.y <= 0

\* the acceleration of drag, and of the Magnus force of the spin
PitchAccel(s) ==
    LET vTotal == FSqrt(FMul(s.vx, s.vx) + FMul(s.vy, s.vy) + FMul(s.vz, s.vz))
        Fd == FMul(FMul(FMul(FMul(R(5, 10), AIR_DENSITY), FMul(vTotal, vTotal)),
                        DRAG_COEFFICIENT), BALL_AREA)
        ad == FDiv(Fd, BALL_MASS)
        axDrag == FMul(-ad, FDiv(s.vx, vTotal))
        ayDrag == FMul(-ad, FDiv(s.vy, vTotal))
        azDrag == FMul(-ad, FDiv(s.vz, vTotal))
        S == FDiv(FMul(BALL_RADIUS, s.omega), vTotal)
        Cl == S
        liftForceMag == FMul(FMul(FMul(FMul(R(5, 10), AIR_DENSITY), FMul(vTotal, vTotal)),
                                  BALL_AREA), Cl)
        radAxis == DegToRad(s.params.spinDirection)
        fMagX == FMul(liftForceMag, Sin(radAxis))
        fMagY == FMul(liftForceMag, Cos(radAxis))
        axMag == FDiv(fMagX, BALL_MASS)
        ayMag == FDiv(fMagY, BALL_MASS)
    IN  [ax |-> axDrag + axMag, ay |-> -GRAVITY + ayDrag + ayMag, az |-> azDrag,
         axMag |-> axMag, ayMag |-> ayMag]

\* mutant: the break accumulates the whole acceleration of the ball
PitchIntegrateWholeAccel(s) ==
    LET a == PitchAccel(s)
        vBreakX == s.vBreakX + FMul(a.ax, PitchDt)
        vBreakY == s.vBreakY + FMul(a.ay, PitchDt)
        vx == s.vx + FMul(a.ax, PitchDt)
        vy == s.vy + FMul(a.ay, PitchDt)
        vz == s.vz + FMul(a.az, PitchDt)
        z == s.z + FMul(vz, PitchDt)
    IN  [s EXCEPT !.vBreakX = vBreakX, !.vBreakY = vBreakY,
                  !.currentBreakX = s.currentBreakX + FMul(vBreakX, PitchDt),
                  !.currentBreakY = s.currentBreakY + FMul(vBreakY, PitchDt),
                  !.vx = vx, !.vy = vy, !.vz = vz,
                  !.x = s.x + FMul(vx, PitchDt),
                  !.y = s.y + FMul(vy, PitchDt),
                  !.z = z,
                  !.t = s.t + PitchDt,
                  !.crossings = s.crossings + IF s.z >= 0 /\ z < 0 THEN 1 ELSE 0]

\* the break accumulators, then velocity, position and time advance by dt
PitchIntegrate(s) ==
    LET a == PitchAccel(s)
        vBreakX == s.vBreakX + FMul(a.axMag, PitchDt)
        vBreakY == s.vBreakY + FMul(a.ayMag, PitchDt)
        vx == s.vx + FMul(a.ax, PitchDt)
        vy == s.vy + FMul(a.ay, PitchDt)
        vz == s.vz + FMul(a.az, PitchDt)
        z == s.z + FMul(vz, PitchDt)
    IN  [s EXCEPT !.vBreakX = vBreakX, !.vBreakY = vBreakY,
                  !.currentBreakX = s.currentBreakX + FMul(vBreakX, PitchDt),
                  !.currentBreakY = s.currentBreakY + FMul(vBreakY, PitchDt),
                  !.vx = vx, !.vy = vy, !.vz = vz,
                  !.x = s.x + FMul(vx, PitchDt),
                  !.y = s.y + FMul(vy, PitchDt),
                  !.z = z,
                  !.t = s.t + PitchDt,
                  !.crossings = s.crossings + IF s.z >= 0 /\ z < 0 THEN 1 ELSE 0]

\* mutant: every step that ends behind the front of the plate counts
CrossesPlateBehind(prevZ, z) == z < 0

\* the step from prevZ to z crosses the front of the plate
CrossesPlate(prevZ, z) == prevZ >= 0 /\ z < 0

\* the point of the segment prev -> (x, y, z) at z = 0
Interpolate(prevX, prevY, prevZ, x, y, z) ==
    LET fraction == FDiv(0 - prevZ, z - prevZ)
    IN  [x |-> prevX + FMul(x - prevX, fraction),
         y |-> prevY + FMul(y - prevY, fraction)]

\* the plate crossing of the step that came from (prevX, prevY, prevZ)
PitchCrossing(s, prevX, prevY, prevZ) ==
    IF CrossesPlate(prevZ, s.z)
    THEN [s EXCEPT !.plateCrossing = <<Interpolate(prevX, prevY, prevZ, s.x, s.y, s.z)>>]
    ELSE s

\* one iteration of the loop
PitchBody(s) ==
    IF PitchBreaks(s)
    THEN [PitchRecord(s) EXCEPT !.pc = "break"]
    ELSE PitchCrossing(PitchIntegrate(PitchRecord(s)), s.x, s.y, s.z)

\* while (z > -CATCHER_DEPTH)
PitchLoopCond(s) == s.z > -CATCHER_DEPTH

\* mutant: plateCrossing is returned as the loop left it, undefined or not
PitchResultNoFallback(s) ==
    [points |-> Push(s.points, PitchSample(s)),
     distance |-> MOUND_DISTANCE - s.z,
     maxHeight |-> s.maxHeight,
     hangTime |-> s.t,
     finalPosition |-> << [x |-> s.x, y |-> s.y] >>,
     plateCrossing |-> s.plateCrossing]

\* mutant: the distance is the fixed length from the rubber to the catcher
PitchResultFixedDistance(s) ==
    [points |-> Push(s.points, PitchSample(s)),
     distance |-> MOUND_DISTANCE + CATCHER_DEPTH,
     maxHeight |-> s.maxHeight,
     hangTime |-> s.t,
     finalPosition |-> << [x |-> s.x, y |-> s.y] >>,
     plateCrossing |-> IF s.plateCrossing # <<>>
                       THEN s.plateCrossing
                       ELSE << [x |-> s.x, y |-> s.y] >>]

\* the sample pushed after the loop, and the returned TrajectoryResult
PitchResult(s) ==
    [points |-> Push(s.points, PitchSample(s)),
     distance |-> MOUND_DISTANCE - s.z,
     maxHeight |-> s.maxHeight,
     hangTime |-> s.t,
     finalPosition |-> << [x |-> s.x, y |-> s.y] >>,
     plateCrossing |-> IF s.plateCrossing # <<>>
                       THEN s.plateCrossing
                       ELSE << [x |-> s.x, y |-> s.y] >>]

PitchIdle == [pc |-> "idle"]

(***************************************************************************)
(* solvePitchAngles                                                        *)
(***************************************************************************)
SolveMaxIter == 10

SolveTolerance == R(5, 10000)

SolveGain == R(25, 10)

\* the state before the first iteration
SolveEntry(params, targetX, targetY) ==
    LET distZ == R(1844, 100) - FDiv(params.extension, R(100, 1))
        relX == FDiv(params.releaseSide, R(100, 1))
        relY == params.releaseHeight
    IN  [pc |-> "iter", i |-> 0, sims |-> 0,
         currentParams |-> params,
         targetX |-> targetX, targetY |-> targetY,
         hAngle |-> RadToDeg(Atan2(targetX - relX, distZ)),
         vAngle |-> RadToDeg(Atan2(targetY - relY, distZ)),
         result |-> <<>>]

\* the call: the angles of the parameters at once, or the loop's entry
SolveStart(params, targetX, targetY) ==
    IF params.velocity <= R(1, 10)
    THEN [pc |-> "done",
          result |-> << [hAngle |-> params.hAngle, vAngle |-> params.vAngle] >>]
    ELSE SolveEntry(params, targetX, targetY)

\* mutant: the loop lets an eleventh iteration through
SolveLoopCondInclusive(s) == s.i <= SolveMaxIter

\* for (...; i < 10; ...)
SolveLoopCond(s) == s.i < SolveMaxIter

\* the parameters of the iteration's simulation
SolveParams(s) == [s.currentParams EXCEPT !.hAngle = s.hAngle, !.vAngle = s.vAngle]

\* the plate error on both axes is within the tolerance
Converged(errorX, errorY) == Abs(errorX) < SolveTolerance /\ Abs(errorY) < SolveTolerance

\* mutant: the angles are updated before the convergence test ends the loop
SolveAfterUpdatesFirst(s, result) ==
    LET crossing == IF result.plateCrossing # <<>>
                    THEN result.plateCrossing
                    ELSE result.finalPosition
        errorX == s.targetX - crossing[1].x
        errorY == s.targetY - crossing[1].y
        u == [s EXCEPT !.hAngle = s.hAngle + FMul(errorX, SolveGain),
                       !.vAngle = s.vAngle + FMul(errorY, SolveGain)]
    IN  IF crossing = <<>> \/ Converged(errorX, errorY)
        THEN [u EXCEPT !.pc = "break"]
        ELSE [u EXCEPT !.pc = "iter", !.i = s.i + 1]

\* the rest of the iteration, once the simulation has returned result
SolveAfter(s, result) ==
    LET crossing == IF result.plateCrossing # <<>>
                    THEN result.plateCrossing
                    ELSE result.finalPosition
        errorX == s.targetX - crossing[1].x
        errorY == s.targetY - crossing[1].y
    IN  IF crossing = <<>> \/ Converged(errorX, errorY)
        THEN [s EXCEPT !.pc = "break"]
        ELSE [s EXCEPT !.pc = "iter", !.i = s.i + 1,
                       !.hAngle = s.hAngle + FMul(errorX, SolveGain),
                       !.vAngle = s.vAngle + FMul(errorY, SolveGain)]

SolveResult(s) == [hAngle |-> s.hAngle, vAngle |-> s.vAngle]

SolveIdle == [pc |-> "idle"]

\* the arguments of the calls of calculatePitchTrajectory
PitchCases ==
    LET base == [velocity |-> R(150, 1), spinRate |-> R(2200, 1), spinDirection |-> R(180, 1),
                 spinEfficiency |-> R(100, 1), hAngle |-> 0, vAngle |-> 0,
                 releaseHeight |-> R(18, 10), releaseSide |-> R(50, 1), extension |-> R(180, 1)]
    IN  << base,
           [base EXCEPT !.vAngle = R(-10, 1)],
           [base EXCEPT !.velocity = 0],
           [base EXCEPT !.velocity = R(180, 1), !.vAngle = R(90, 1)],
           [base EXCEPT !.extension = R(1900, 1)],
           [base EXCEPT !.velocity = R(1, 10), !.releaseHeight = R(1, 1)],
           [base EXCEPT !.spinRate = R(3000, 1), !.spinDirection = R(45, 1),
                        !.hAngle = R(-2, 1), !.vAngle = R(1, 1)],
           [base EXCEPT !.extension = R(2000, 1)],
           [base EXCEPT !.velocity = R(90, 1), !.spinRate = 0, !.vAngle = R(3, 1),
                        !.releaseSide = R(-40, 1)],
           [base EXCEPT !.spinEfficiency = 0, !.spinDirection = R(90, 1),
                        !.vAngle = R(-2, 1)],
           [base EXCEPT !.spinDirection = 0, !.vAngle = R(5, 1)],
           [base EXCEPT !.velocity = R(120, 1), !.spinRate = R(1500, 1),
                        !.spinDirection = R(270, 1), !.spinEfficiency = R(50, 1)] >>

MaxPitchCase == 11

PitchInputs == {PitchCases[i] : i \in 1..Min(MaxPitchCase, Len(PitchCases))}

\* the arguments of the calls of solvePitchAngles
SolveCases ==
    << [params |-> PitchCases[1], targetX |-> 0, targetY |-> R(8, 10)],
       [params |-> PitchCases[3], targetX |-> 0, targetY |-> R(8, 10)],
       [params |-> [PitchCases[1] EXCEPT !.velocity = R(40, 1)],
        targetX |-> R(3, 10), targetY |-> R(25, 10)],
       [params |-> PitchCases[7], targetX |-> R(-2, 10), targetY |-> R(5, 10)] >>

MaxSolveCase == 3

SolveInputs == {SolveCases[i] : i \in 1..Min(MaxSolveCase, Len(SolveCases))}

(***************************************************************************)
(* The round trip: simulate, solve for the crossing, simulate the answer   *)
(***************************************************************************)
TripIdle == [pc |-> "idle"]

\* the pitches of the round trips, with their known angles
TripCases ==
    << [PitchCases[1] EXCEPT !.vAngle = R(2, 1)],
       [PitchCases[1] EXCEPT !.vAngle = R(-1, 1)],
       [PitchCases[1] EXCEPT !.velocity = R(100, 1), !.vAngle = R(5, 1)] >>

MaxTripCase == 2

TripInputs == {TripCases[i] : i \in 1..Min(MaxTripCase, Len(TripCases))}

(***************************************************************************)
(* Controls: handlePitchingChange                                          *)
(***************************************************************************)
\* Math.max(lo, Math.min(hi, value))
Clamp(lo, hi, value) == Max(lo, Min(hi, value))

\* Math.acos(c) for 0 <= c <= 1
Acos(c) == Atan2(FSqrt(SCALE - FMul(c, c)), c)

\* Number(x.toFixed(1))
ToFixed1(x) == RoundDiv(x, SCALE \div 10) * (SCALE \div 10)

\* Number(x.toFixed(2))
ToFixed2(x) == RoundDiv(x, SCALE \div 100) * (SCALE \div 100)

\* 1. sync spin efficiency <-> gyro degree: the field that was not edited
\* is derived from the clamped value of the one that was
SyncSpin(newState, key, value) ==
    IF key = "spinEfficiency"
    THEN LET eff == Clamp(0, R(100, 1), value)
             rad == Acos(FDiv(eff, R(100, 1)))
         IN  [newState EXCEPT !.gyroDegree = ToFixed1(RadToDeg(rad))]
    ELSE IF key = "gyroDegree"
    THEN LET gyro == Clamp(0, R(90, 1), value)
             eff == FMul(Cos(DegToRad(gyro)), R(100, 1))
         IN  [newState EXCEPT !.spinEfficiency = ToFixed1(eff)]
    ELSE newState

\* App: the pitching parameters of useState
DefaultPitchingParams ==
    [velocity |-> R(1451, 10), spinRate |-> R(2175, 1), spinDirection |-> R(38, 1),
     spinEfficiency |-> R(893, 10), hAngle |-> R(22, 10), vAngle |-> R(-23, 10),
     releaseHeight |-> R(18, 10), releaseSide |-> R(505, 10), extension |-> R(1829, 10),
     targetX |-> 0, targetY |-> R(76, 100), gyroDegree |-> R(267, 10)]

\* the edits: the field of the InputCell or of the zone, and the number entered
UiCases ==
    << [key |-> "spinEfficiency", value |-> R(150, 1)],
       [key |-> "gyroDegree", value |-> R(60, 1)],
       [key |-> "targetX", value |-> R(3, 10)],
       [key |-> "hAngle", value |-> R(1, 1)],
       [key |-> "velocity", value |-> 0],
       [key |-> "spinEfficiency", value |-> R(50, 1)],
       [key |-> "gyroDegree", value |-> R(120, 1)],
       [key |-> "targetY", value |-> R(5, 10)],
       [key |-> "vAngle", value |-> R(-1, 1)] >>

MaxUiCase == 7

UiInputs == {UiCases[i] : i \in 1..Min(MaxUiCase, Len(UiCases))}

\* the number of edits of a behaviour
MaxEdits == 2

UiIdle ==
    [pc |-> "idle", params |-> DefaultPitchingParams, key |-> "", value |-> 0,
     newState |-> <<>>, edits |-> 0]

(***************************************************************************)
(* App and SceneContent: playback                                          *)
(***************************************************************************)
\* the time between two frames
FrameDt == R(1, 1)

\* the delay of the loop restart: setTimeout(..., 1000)
RestartDelay == R(1, 1)

\* the pause before the slow replay: waitElapsed > 1.0
WaitDelay == R(1, 1)

\* the speed factor of the slow replay
SlowFactor == R(15, 100)

\* the greatest simulationTrigger and the number of mode changes of a behaviour
MaxTrigger == 3

MaxModeChanges == 1

\* the initial battingParams
DefaultBattingParams == BatCases[1]

\* useState and useRef of App and of SceneContent before the first render
AppInit ==
    [mode |-> "batting", simulationTrigger |-> 0,
     isPlaying |-> FALSE, isLooping |-> FALSE,
     timers |-> <<>>,
     playbackState |-> "idle", startTime |-> <<0>>,
     memo |-> <<>>, points |-> [len |-> 0, duration |-> 0], effect |-> <<>>,
     pc |-> "ready", frame |-> 0,
     modeChanges |-> 0, stopped |-> FALSE, last |-> ""]

handlePlay(a) ==
    [a EXCEPT !.isLooping = TRUE,
              !.simulationTrigger = a.simulationTrigger + 1,
              !.isPlaying = TRUE,
              !.stopped = FALSE, !.last = "play"]

handleStop(a) ==
    [a EXCEPT !.isLooping = FALSE,
              !.isPlaying = FALSE,
              !.timers = [i \in DOMAIN a.timers |->
                              [a.timers[i] EXCEPT !.stopped = TRUE]],
              !.stopped = TRUE, !.last = "stop"]

handleAnimationComplete(a) ==
    IF a.isLooping
    THEN [a EXCEPT !.timers = Append(a.timers,
                                     [left |-> RestartDelay, stopped |-> FALSE])]
    ELSE [a EXCEPT !.isPlaying = FALSE]

\* mutant: the callback of the timer does not read isLoopingRef again
TimeoutAlwaysRestarts(a) ==
    [a EXCEPT !.simulationTrigger = a.simulationTrigger + 1]

\* the callback of the timer
Timeout(a) ==
    IF a.isLooping
    THEN [a EXCEPT !.simulationTrigger = a.simulationTrigger + 1]
    ELSE [a EXCEPT !.isPlaying = FALSE]

\* the dependencies of the playback effect
EffectDeps(a, pitchingParams) ==
    <<a.simulationTrigger, a.mode, DefaultBattingParams.velocityKmh,
      pitchingParams.velocity>>

\* the playback effect, run by a render when a dependency has changed
PlaybackEffect(a, deps) ==
    IF a.effect = <<deps>>
    THEN a
    ELSE IF a.simulationTrigger > 0
         THEN [a EXCEPT !.playbackState = "normal", !.startTime = <<>>,
                        !.effect = <<deps>>, !.frame = 0]
         ELSE [a EXCEPT !.effect = <<deps>>]

\* mutant: the end of the normal replay of a pitch completes the playback
UseFrameSkipsReplay(a) ==
    IF a.playbackState = "waiting"
    THEN IF a.startTime[1] > WaitDelay
         THEN [a EXCEPT !.playbackState = "slow", !.startTime = <<>>,
                        !.last = "frame"]
         ELSE [a EXCEPT !.last = "frame"]
    ELSE IF a.playbackState # "idle" /\ a.points.len > 1
    THEN LET rawElapsed == IF a.startTime = <<>> THEN 0 ELSE a.startTime[1]
             speedFactor == IF a.mode = "pitching" /\ a.playbackState = "slow"
                            THEN SlowFactor ELSE SCALE
             simTime == FMul(rawElapsed, speedFactor)
             totalDuration == a.points.duration
         IN  IF simTime <= totalDuration
             THEN [a EXCEPT !.startTime = <<rawElapsed>>, !.last = "frame"]
             ELSE handleAnimationComplete(
                      [a EXCEPT !.startTime = <<rawElapsed>>,
                                !.playbackState = "idle",
                                !.last = "complete"])
    ELSE [a EXCEPT !.last = "frame"]

\* the callback of useFrame; startTime holds the time since startTimeRef
UseFrame(a) ==
    IF a.playbackState = "waiting"
    THEN IF a.startTime[1] > WaitDelay
         THEN [a EXCEPT !.playbackState = "slow", !.startTime = <<>>,
                        !.last = "frame"]
         ELSE [a EXCEPT !.last = "frame"]
    ELSE IF a.playbackState # "idle" /\ a.points.len > 1
    THEN LET rawElapsed == IF a.startTime = <<>> THEN 0 ELSE a.startTime[1]
             speedFactor == IF a.mode = "pitching" /\ a.playbackState = "slow"
                            THEN SlowFactor ELSE SCALE
             simTime == FMul(rawElapsed, speedFactor)
             totalDuration == a.points.duration
         IN  IF simTime <= totalDuration
             THEN [a EXCEPT !.startTime = <<rawElapsed>>, !.last = "frame"]
             ELSE IF a.mode = "pitching" /\ a.playbackState = "normal"
             THEN [a EXCEPT !.playbackState = "waiting", !.startTime = <<0>>,
                            !.last = "frame"]
             ELSE handleAnimationComplete(
                      [a EXCEPT !.startTime = <<rawElapsed>>,
                                !.playbackState = "idle",
                                !.last = "complete"])
    ELSE [a EXCEPT !.last = "frame"]

\* the clock and the timers after one more frame time
Elapse(a) ==
    [a EXCEPT !.frame = IF a.playbackState = "idle" THEN a.frame ELSE 1 - a.frame,
              !.timers = [i \in DOMAIN a.timers |->
                              [a.timers[i] EXCEPT
                                   !.left = Max(a.timers[i].left - FrameDt, 0)]],
              !.startTime = IF a.startTime = <<>> \/ a.playbackState = "idle"
                            THEN a.startTime
                            ELSE <<a.startTime[1] + FrameDt>>]

\* what the playback reads of a trajectory
Playable(result) ==
    [len |-> result.points.len, duration |-> result.points.last[1].t]

VARIABLES bat, pit, sol, ui, trip, app

vars == <<bat, pit, sol, ui, trip, app>>

\* the engine is synchronous: a call is made when no other call is running
AllIdle ==
    /\ bat.pc = "idle" /\ pit.pc = "idle" /\ sol.pc = "idle"
    /\ ui.pc = "idle" /\ trip.pc \in {"idle", "done"}

BatCall(c) ==
    /\ AllIdle
    /\ bat' = BatEntry(c)
    /\ UNCHANGED <<pit, sol, ui, trip, app>>

BatStep ==
    /\ bat.pc = "loop"
    /\ BatLoopCond(bat)
    /\ bat' = BatBody(bat)
    /\ UNCHANGED <<pit, sol, ui, trip, app>>

BatReturn ==
    /\ \/ bat.pc = "loop" /\ ~BatLoopCond(bat)
       \/ bat.pc = "break"
    /\ bat' = [bat EXCEPT !.pc = "done", !.result = <<BatResult(bat)>>]
    /\ UNCHANGED <<pit, sol, ui, trip, app>>

PitchCall(p) ==
    /\ AllIdle
    /\ pit' = PitchStart(p)
    /\ UNCHANGED <<bat, sol, ui, trip, app>>

PitchStep ==
    /\ pit.pc = "loop"
    /\ PitchLoopCond(pit)
    /\ pit' = PitchBody(pit)
    /\ UNCHANGED <<bat, sol, ui, trip, app>>

PitchReturn ==
    /\ \/ pit.pc = "loop" /\ ~PitchLoopCond(pit)
       \/ pit.pc = "break"
    /\ pit' = [pit EXCEPT !.pc = "done", !.result = <<PitchResult(pit)>>]
    /\ UNCHANGED <<bat, sol, ui, trip, app>>

SolveCall(c) ==
    /\ AllIdle
    /\ sol' = SolveStart(c.params, c.targetX, c.targetY)
    /\ UNCHANGED <<bat, pit, ui, trip, app>>

\* an iteration begins: calculatePitchTrajectory(currentParams) is called
SolveSimulate ==
    /\ sol.pc = "iter"
    /\ SolveLoopCond(sol)
    /\ pit.pc = "idle"
    /\ pit' = PitchStart(SolveParams(sol))
    /\ sol' = [sol EXCEPT !.pc = "sim", !.currentParams = SolveParams(sol),
                          !.sims = sol.sims + 1]
    /\ UNCHANGED <<bat, ui, trip, app>>

\* the simulation has returned: the iteration ends
SolveResume ==
    /\ sol.pc = "sim"
    /\ pit.pc = "done"
    /\ sol' = SolveAfter(sol, pit.result[1])
    /\ pit' = PitchIdle
    /\ UNCHANGED <<bat, ui, trip, app>>

SolveReturn ==
    /\ \/ sol.pc = "iter" /\ ~SolveLoopCond(sol)
       \/ sol.pc = "break"
    /\ sol' = [sol EXCEPT !.pc = "done", !.result = <<SolveResult(sol)>>]
    /\ UNCHANGED <<bat, pit, ui, trip, app>>

Init ==
    /\ bat = BatIdle
    /\ pit = PitchIdle
    /\ sol = SolveIdle
    /\ ui = UiIdle
    /\ trip = TripIdle
    /\ app = AppInit

Next ==
    \/ \E c \in BatInputs : BatCall(c)
    \/ BatStep
    \/ BatReturn
    \/ \E p \in PitchInputs : PitchCall(p)
    \/ PitchStep
    \/ PitchReturn
    \/ \E c \in SolveInputs : SolveCall(c)
    \/ SolveSimulate
    \/ SolveResume
    \/ SolveReturn

Spec == Init /\ [][Next]_vars

\* the pitch with the known angles is simulated
TripCall(p) ==
    /\ AllIdle
    /\ trip' = [pc |-> "forward", params |-> p]
    /\ pit' = PitchStart(p)
    /\ UNCHANGED <<bat, sol, ui, app>>

\* solvePitchAngles is called with the plate crossing of that simulation
TripSolve ==
    /\ trip.pc = "forward"
    /\ pit.pc = "done"
    /\ trip' = [pc |-> "solve", params |-> trip.params,
                target |-> pit.result[1].plateCrossing[1]]
    /\ sol' = SolveStart(trip.params, pit.result[1].plateCrossing[1].x,
                         pit.result[1].plateCrossing[1].y)
    /\ pit' = PitchIdle
    /\ UNCHANGED <<bat, ui, app>>

\* the pitch with the returned angles is simulated
TripVerify ==
    /\ trip.pc = "solve"
    /\ sol.pc = "done"
    /\ trip' = [pc |-> "verify", params |-> trip.params, target |-> trip.target,
                angles |-> sol.result[1],
                converged |-> "i" \in DOMAIN sol /\ sol.i < SolveMaxIter]
    /\ pit' = PitchStart([trip.params EXCEPT !.hAngle = sol.result[1].hAngle,
                                             !.vAngle = sol.result[1].vAngle])
    /\ sol' = SolveIdle
    /\ UNCHANGED <<bat, ui, app>>

\* the plate crossing of the returned angles is kept for the comparison
TripReturn ==
    /\ trip.pc = "verify"
    /\ pit.pc = "done"
    /\ trip' = [pc |-> "done", params |-> trip.params, target |-> trip.target,
                angles |-> trip.angles, converged |-> trip.converged,
                crossing |-> pit.result[1].plateCrossing[1]]
    /\ pit' = PitchIdle
    /\ UNCHANGED <<bat, sol, ui, app>>

TripNext ==
    \/ \E p \in TripInputs : TripCall(p)
    \/ TripSolve
    \/ TripVerify
    \/ TripReturn
    \/ PitchStep
    \/ PitchReturn
    \/ SolveSimulate
    \/ SolveResume
    \/ SolveReturn

TripSpec == Init /\ [][TripNext]_vars

\* handlePitchingChange(key, value): the edit and the sync, then the branch:
\* case A (a target) and case C (another field, velocity > 0.1) call the
\* solver, case B (an angle) calls one simulation
UiEdit(key, value) ==
    /\ AllIdle
    /\ ~app.isPlaying
    /\ ui.edits < MaxEdits
    /\ LET newState == SyncSpin([ui.params EXCEPT ![key] = value], key, value)
       IN  IF key \in {"targetX", "targetY"}
              \/ (key \notin {"hAngle", "vAngle"} /\ newState.velocity > R(1, 10))
           THEN /\ ui' = [ui EXCEPT !.pc = "solve", !.newState = <<newState>>,
                                    !.key = key, !.value = value,
                                    !.edits = ui.edits + 1]
                /\ sol' = SolveStart(newState, newState.targetX, newState.targetY)
                /\ UNCHANGED pit
           ELSE IF key \in {"hAngle", "vAngle"}
           THEN /\ ui' = [ui EXCEPT !.pc = "simulate", !.newState = <<newState>>,
                                    !.key = key, !.value = value,
                                    !.edits = ui.edits + 1]
                /\ pit' = PitchStart(newState)
                /\ UNCHANGED sol
           ELSE /\ ui' = [ui EXCEPT !.params = newState,
                                    !.key = key, !.value = value,
                                    !.edits = ui.edits + 1]
                /\ UNCHANGED <<pit, sol>>
    /\ UNCHANGED <<bat, trip, app>>

\* mutant: the solution is dropped and the angles stay as they were
UiSolvedKeepsAngles ==
    /\ ui.pc = "solve"
    /\ sol.pc = "done"
    /\ ui' = [ui EXCEPT !.pc = "idle", !.newState = <<>>, !.params = ui.newState[1]]
    /\ sol' = SolveIdle
    /\ UNCHANGED <<bat, pit, trip, app>>

\* cases A and C: the angles of the solution, rounded to two decimals
UiSolved ==
    /\ ui.pc = "solve"
    /\ sol.pc = "done"
    /\ ui' = [ui EXCEPT !.pc = "idle", !.newState = <<>>,
                        !.params = [ui.newState[1] EXCEPT
                                        !.hAngle = ToFixed2(sol.result[1].hAngle),
                                        !.vAngle = ToFixed2(sol.result[1].vAngle)]]
    /\ sol' = SolveIdle
    /\ UNCHANGED <<bat, pit, trip, app>>

\* mutant: the target becomes the last position of the simulation
UiSimulatedFinalPosition ==
    /\ ui.pc = "simulate"
    /\ pit.pc = "done"
    /\ ui' = [ui EXCEPT !.pc = "idle", !.newState = <<>>,
                        !.params = [ui.newState[1] EXCEPT
                                        !.targetX = pit.result[1].finalPosition[1].x,
                                        !.targetY = pit.result[1].finalPosition[1].y]]
    /\ pit' = PitchIdle
    /\ UNCHANGED <<bat, sol, trip, app>>

\* case B: the target becomes the plate crossing of the simulation
UiSimulated ==
    /\ ui.pc = "simulate"
    /\ pit.pc = "done"
    /\ LET result == pit.result[1]
           crossing == IF result.plateCrossing # <<>>
                       THEN result.plateCrossing
                       ELSE result.finalPosition
       IN  ui' = [ui EXCEPT !.pc = "idle", !.newState = <<>>,
                           !.params = IF crossing # <<>>
                                      THEN [ui.newState[1] EXCEPT
                                                !.targetX = crossing[1].x,
                                                !.targetY = crossing[1].y]
                                      ELSE ui.newState[1]]
    /\ pit' = PitchIdle
    /\ UNCHANGED <<bat, sol, trip, app>>

UiNext ==
    \/ \E c \in UiInputs : UiEdit(c.key, c.value)
    \/ UiSolved
    \/ UiSimulated
    \/ PitchStep
    \/ PitchReturn
    \/ SolveSimulate
    \/ SolveResume
    \/ SolveReturn

UiSpec == Init /\ [][UiNext]_vars

\* the dependencies of the memoised trajectory; every edit stores a new
\* pitchingParams object, which its number identifies
MemoDeps == <<app.mode, ui.edits>>

\* SceneContent has rendered the state of App
SceneCurrent == app.pc = "ready" /\ app.memo = <<MemoDeps>>

\* a render of SceneContent whose useMemo computes the trajectory again
\* (the first render, or one after mode or pitchingParams has changed)
SceneRender ==
    /\ AllIdle
    /\ app.pc = "ready"
    /\ app.memo # <<MemoDeps>>
    /\ app' = [app EXCEPT !.pc = "render", !.last = "render"]
    /\ IF app.mode = "batting"
       THEN bat' = BatEntry(DefaultBattingParams) /\ UNCHANGED pit
       ELSE pit' = PitchStart(ui.params) /\ UNCHANGED bat
    /\ UNCHANGED <<sol, ui, trip>>

\* the trajectory is there: the render ends and its effects run
SceneRendered ==
    /\ app.pc = "render"
    /\ \/ /\ app.mode = "batting"
          /\ bat.pc = "done"
          /\ app' = PlaybackEffect(
                        [app EXCEPT !.pc = "ready", !.memo = <<MemoDeps>>,
                                    !.points = Playable(bat.result[1])],
                        EffectDeps(app, ui.params))
          /\ bat' = BatIdle
          /\ UNCHANGED pit
       \/ /\ app.mode = "pitching"
          /\ pit.pc = "done"
          /\ app' = PlaybackEffect(
                        [app EXCEPT !.pc = "ready", !.memo = <<MemoDeps>>,
                                    !.points = Playable(pit.result[1])],
                        EffectDeps(app, ui.params))
          /\ pit' = PitchIdle
          /\ UNCHANGED bat
    /\ UNCHANGED <<sol, ui, trip>>

\* the mode buttons of Controls, which take no input during a playback
SetMode(m) ==
    /\ AllIdle
    /\ SceneCurrent
    /\ ~app.isPlaying
    /\ m # app.mode
    /\ app.modeChanges < MaxModeChanges
    /\ app' = [app EXCEPT !.mode = m, !.modeChanges = app.modeChanges + 1,
                          !.last = "mode"]
    /\ UNCHANGED <<bat, pit, sol, ui, trip>>

\* the velocity of the pitch is edited to 0 in the pitching panel
EditVelocity ==
    /\ SceneCurrent
    /\ app.mode = "pitching"
    /\ UiEdit(UiCases[5].key, UiCases[5].value)

\* the Play button, disabled during a playback; the render that follows
\* runs the playback effect
Play ==
    /\ AllIdle
    /\ SceneCurrent
    /\ ~app.isPlaying
    /\ app.simulationTrigger < MaxTrigger
    /\ app' = PlaybackEffect(handlePlay(app),
                             EffectDeps(handlePlay(app), ui.params))
    /\ UNCHANGED <<bat, pit, sol, ui, trip>>

\* the Stop button, shown during a playback
Stop ==
    /\ AllIdle
    /\ SceneCurrent
    /\ app.isPlaying
    /\ app' = handleStop(app)
    /\ UNCHANGED <<bat, pit, sol, ui, trip>>

\* the oldest timer has run out
TimerDue == app.timers # <<>> /\ Head(app.timers).left = 0

\* no restart is followed beyond MaxTrigger
TimerHeld == app.isLooping /\ app.simulationTrigger >= MaxTrigger

\* the callback of the oldest timer runs, and the render that follows
TimerFire ==
    /\ AllIdle
    /\ SceneCurrent
    /\ TimerDue
    /\ ~TimerHeld
    /\ LET fired == [Timeout(app) EXCEPT !.timers = Tail(app.timers),
                                         !.last = "timeout"]
       IN  app' = PlaybackEffect(fired, EffectDeps(fired, ui.params))
    /\ UNCHANGED <<bat, pit, sol, ui, trip>>

\* one frame: time passes and the callback of useFrame runs; a timer that
\* has run out fires before the next frame
Frame ==
    /\ AllIdle
    /\ SceneCurrent
    /\ ~(TimerDue /\ ~TimerHeld)
    /\ app' = UseFrame(Elapse(app))
    /\ UNCHANGED <<bat, pit, sol, ui, trip>>

PlayNext ==
    \/ SceneRender
    \/ SceneRendered
    \/ \E m \in {"batting", "pitching"} : SetMode(m)
    \/ EditVelocity
    \/ Play
    \/ Stop
    \/ TimerFire
    \/ Frame
    \/ BatStep
    \/ BatReturn
    \/ PitchStep
    \/ PitchReturn

PlaySpec == Init /\ [][PlayNext]_vars

\* frames keep rendering and a timer that has run out fires; a render that
\* has begun ends, since the loops of the engine are bounded (20 s and 5 s of
\* simulated time, 10 iterations)
PlayFairness ==
    /\ WF_vars(Frame)
    /\ WF_vars(TimerFire)
    /\ []<>SceneCurrent

PlayFairSpec == PlaySpec /\ PlayFairness

(***************************************************************************)
(* Properties                                                              *)
(***************************************************************************)
BatRunning == bat.pc \in {"loop", "break"}

BatActive == bat.pc \in {"loop", "break", "done"}

PitchRunning == pit.pc \in {"loop", "break"}

\* the pitch has returned from the loop, not from the degenerate branch
PitchLoopDone == pit.pc = "done" /\ pit.params.velocity > R(1, 10)

PitchDegenerateDone == pit.pc = "done" /\ pit.params.velocity <= R(1, 10)

\* the step pit -> pit' is an iteration that integrated
PitchIntegrated == pit.pc = "loop" /\ pit'.pc = "loop" /\ pit'.t # pit.t

\* the state ends the pitch: on the ground, past the failsafe, past the catcher
PitchStopped(s) == s.y <= 0 \/ s.t > MAX_SIMULATION_TIME \/ s.z <= -CATCHER_DEPTH

\* the release point of the parameters, as a sample
ReleaseSample(params) ==
    [x |-> FDiv(params.releaseSide, R(100, 1)),
     y |-> params.releaseHeight,
     z |-> MOUND_DISTANCE - FDiv(params.extension, R(100, 1)),
     t |-> 0, breakX |-> 0, breakY |-> 0]

\* a call is running: entered, not yet returned
SolveRunning == sol.pc \in {"iter", "sim", "break"}

\* C1: every call of calculateTrajectory, calculatePitchTrajectory and
\* solvePitchAngles terminates: the batting loop makes at most 20 / 0.01 =
\* 2000 steps, the pitch loop integrates from no state with t > 5, the
\* solver makes at most 10 iterations, each waiting for one simulation that
\* runs; and each step of a running call either returns or uses up one of
\* these bounded steps.
C1_Termination ==
    /\ [](BatActive => bat.points.len * BatDt <= BatMaxTime /\ bat.t = bat.points.len * BatDt)
    /\ [][PitchIntegrated => pit.t <= MAX_SIMULATION_TIME]_vars
    /\ [](PitchRunning => pit.t = (pit.points.len - IF pit.pc = "break" THEN 1 ELSE 0) * PitchDt)
    /\ [](SolveRunning => /\ sol.i <= SolveMaxIter
                          /\ sol.pc = "sim" => sol.i < SolveMaxIter)
    /\ [](sol.pc = "sim" => PitchRunning \/ pit.pc = "done")
    /\ [](sol.pc = "iter" => pit.pc = "idle")
    /\ [][BatRunning => bat'.pc = "done" \/ bat'.points.len = bat.points.len + 1]_vars
    /\ [][PitchRunning => pit'.pc = "done" \/ pit'.points.len = pit.points.len + 1]_vars
    /\ [][SolveRunning /\ sol' # sol =>
              \/ sol'.pc = "done"
              \/ sol.pc = "iter" /\ sol'.pc = "sim" /\ sol'.i = sol.i
              \/ sol.pc = "sim" /\ sol'.pc = "iter" /\ sol'.i = sol.i + 1
              \/ sol.pc = "sim" /\ sol'.pc = "break"]_vars

\* C1 witness: a batted ball that the 20 s cap stops, after 2000 steps
C1_Witness ==
    /\ bat.pc = "done"
    /\ bat.points.len * BatDt = BatMaxTime
    /\ bat.result[1].hangTime = BatMaxTime

\* C2: in a batted-ball trajectory sample i has t = i * 0.01, each sample one
\* step after the one before, also after a wall reflection, a bounce or a
\* rolling update.
C2_BatTimeStep ==
    BatActive /\ bat.points.len > 0 =>
        /\ bat.points.last[1].t = (bat.points.len - 1) * BatDt
        /\ bat.points.len > 1 => bat.points.last[1].t = bat.points.prev[1].t + BatDt
        /\ BatRunning => bat.t = bat.points.last[1].t + BatDt

\* C2 witness: a finished trajectory with a wall reflection, bounces and rolling
C2_Witness ==
    /\ bat.pc = "done"
    /\ bat.walls > 0 /\ bat.bounces > 0 /\ bat.rolls > 0
    /\ bat.points.len > 100

\* C3: in a pitch trajectory every sample is later than the one before it,
\* whichever way the run ends.
C3_PitchTimeIncreases ==
    /\ PitchRunning /\ pit.points.len > 1 => pit.points.last[1].t > pit.points.prev[1].t
    /\ pit.pc = "done" /\ pit.result[1].points.len > 1 =>
           pit.result[1].points.last[1].t > pit.result[1].points.prev[1].t

\* C4: the samples of a result are never empty and the first is the initial
\* state at t = 0: (0, 0.5, 0) for a batted ball, the release point for a pitch.
C4_FirstSample ==
    /\ BatActive /\ bat.points.len > 0 =>
           bat.points.first = << [x |-> 0, y |-> R(5, 10), z |-> 0, t |-> 0] >>
    /\ bat.pc = "done" => bat.result[1].points.len > 0
    /\ PitchRunning /\ pit.points.len > 0 =>
           pit.points.first = <<ReleaseSample(pit.params)>>
    /\ pit.pc = "done" =>
           /\ pit.result[1].points.len > 0
           /\ pit.result[1].points.first = <<ReleaseSample(pit.params)>>

\* C4 witness: a pitch released behind the catcher, whose loop never runs
C4_Witness ==
    /\ PitchLoopDone
    /\ pit.result[1].points.len = 1
    /\ pit.result[1].points.first[1].z <= -CATCHER_DEPTH

\* C5: no sample of a batted-ball trajectory has y < 0; a step that brings
\* the height to y <= 0 leaves it at 0 before the next sample.
C5_GroundClamp ==
    BatActive =>
        /\ bat.y >= 0
        /\ bat.points.len > 0 => bat.points.last[1].y >= 0
        /\ bat.pc = "done" => bat.result[1].points.last[1].y >= 0

\* C5 witness: a sample at height 0, recorded after a bounce
C5_Witness ==
    /\ BatRunning
    /\ bat.bounces > 0
    /\ bat.points.last[1].y = 0
    /\ bat.vy > 0

\* C6: distance and landingPosition are written once, at the first step that
\* brings the height to <= 0; the returned distance is the horizontal range
\* at that contact, whatever bounces, rolls or reflects afterwards.
C6_CarryWrittenOnce ==
    /\ [](BatActive =>
            /\ ~bat.hasHitGround =>
                   /\ bat.landingPosition = <<>>
                   /\ bat.carryDistance = 0
                   /\ bat.bounces = 0 /\ bat.rolls = 0
                   /\ bat.pc = "loop" => bat.y > 0
            /\ bat.hasHitGround =>
                   /\ bat.landingPosition # <<>>
                   /\ bat.landingPosition[1].y = 0
                   /\ bat.carryDistance =
                          Hypot(bat.landingPosition[1].x, bat.landingPosition[1].z)
            /\ bat.pc = "done" /\ bat.hasHitGround =>
                   /\ bat.result[1].distance = bat.carryDistance
                   /\ bat.result[1].landingPosition = bat.landingPosition)
    /\ [][bat.pc = "loop" /\ ~bat.hasHitGround /\ bat'.hasHitGround =>
              bat'.landingPosition = << [x |-> bat'.x, y |-> 0, z |-> bat'.z] >>]_vars
    /\ [][BatActive /\ bat.hasHitGround =>
              /\ bat'.hasHitGround
              /\ bat'.carryDistance = bat.carryDistance
              /\ bat'.landingPosition = bat.landingPosition]_vars

\* C6 witness: a ball that bounced, hit the wall and rolled after landing,
\* and came to rest elsewhere than its landing position
C6_Witness ==
    /\ bat.pc = "done"
    /\ bat.hasHitGround
    /\ bat.bounces > 1 /\ bat.rolls > 0 /\ bat.walls > 0
    /\ Hypot(bat.x, bat.z) # bat.result[1].distance

\* C7, as stated: no integration step is taken from a state with y <= 0,
\* t > 5 or z <= -1.5, one is taken from every other state, and the final
\* sample of every result satisfies one of the three.
C7_StopsAtFirst ==
    /\ [][pit.pc = "loop" /\ PitchStopped(pit) => pit'.t = pit.t]_vars
    /\ [][pit.pc = "loop" /\ ~PitchStopped(pit) => PitchIntegrated]_vars
    /\ [](pit.pc = "done" => PitchStopped(pit.result[1].points.last[1]))

\* C7, amended: the same, the final sample being that of a pitch with
\* velocity > 0.1 (the result of a slower pitch is the release point alone).
C7_StopsAtFirstAboveMinimum ==
    /\ [][pit.pc = "loop" /\ PitchStopped(pit) => pit'.t = pit.t]_vars
    /\ [][pit.pc = "loop" /\ ~PitchStopped(pit) => PitchIntegrated]_vars
    /\ [](PitchLoopDone => PitchStopped(pit.result[1].points.last[1]))

\* C7 witness: a pitch that the 5 s failsafe ended, in the air before the plate
C7_Witness ==
    /\ PitchLoopDone
    /\ pit.result[1].points.last[1].t > MAX_SIMULATION_TIME
    /\ pit.result[1].points.last[1].y > 0
    /\ pit.result[1].points.last[1].z > 0

\* C8: plateCrossing is captured once, at the first step that takes z from
\* >= 0 to < 0, and no later step overwrites it; it is the interpolation at
\* z = 0 between the two samples of that step, the fraction within [0, 1].
C8_PlateCrossingOnce ==
    /\ [][PitchIntegrated /\ pit.z >= 0 /\ pit'.z < 0 =>
              LET fraction == FDiv(0 - pit.z, pit'.z - pit.z)
              IN  /\ pit.plateCrossing = <<>>
                  /\ fraction >= 0 /\ fraction <= SCALE
                  /\ pit'.plateCrossing =
                         << [x |-> pit.x + FMul(pit'.x - pit.x, fraction),
                             y |-> pit.y + FMul(pit'.y - pit.y, fraction)] >>
                  /\ pit'.plateCrossing[1].x >= Min(pit.x, pit'.x)
                  /\ pit'.plateCrossing[1].x <= Max(pit.x, pit'.x)
                  /\ pit'.plateCrossing[1].y >= Min(pit.y, pit'.y)
                  /\ pit'.plateCrossing[1].y <= Max(pit.y, pit'.y)]_vars
    /\ [][PitchRunning /\ ~(PitchIntegrated /\ pit.z >= 0 /\ pit'.z < 0) =>
              pit'.plateCrossing = pit.plateCrossing]_vars
    /\ [](PitchRunning \/ PitchLoopDone =>
              /\ pit.crossings <= 1
              /\ pit.crossings = 1 <=> pit.plateCrossing # <<>>)
    /\ [](PitchLoopDone /\ pit.plateCrossing # <<>> =>
              pit.result[1].plateCrossing = pit.plateCrossing)

\* C8 witness: a pitch that crossed the plate and flew on to the catcher
C8_Witness ==
    /\ PitchLoopDone
    /\ pit.plateCrossing # <<>>
    /\ pit.z <= -CATCHER_DEPTH
    /\ pit.result[1].plateCrossing # pit.result[1].finalPosition

\* C9: when no step takes z from >= 0 to < 0, the returned plateCrossing is
\* the (x, y) of the final sample, which is finalPosition.
C9_CrossingFallback ==
    /\ PitchLoopDone /\ pit.crossings = 0 =>
           /\ pit.result[1].plateCrossing =
                  << [x |-> pit.result[1].points.last[1].x,
                      y |-> pit.result[1].points.last[1].y] >>
           /\ pit.result[1].plateCrossing = pit.result[1].finalPosition
    /\ PitchDegenerateDone =>
           /\ pit.result[1].plateCrossing =
                  << [x |-> pit.result[1].points.last[1].x,
                      y |-> pit.result[1].points.last[1].y] >>
           /\ pit.result[1].plateCrossing = pit.result[1].finalPosition

\* C9 witness: a pitch that reached the ground before the plate
C9_Witness ==
    /\ PitchLoopDone
    /\ pit.crossings = 0
    /\ pit.y <= 0
    /\ pit.z > 0

\* C10: with velocity <= 0.1 nothing is integrated and the result is the
\* release point alone at t = 0, distance 0, hangTime 0, maxHeight the
\* release height, finalPosition and plateCrossing the release (x, y).
C10_Degenerate ==
    /\ PitchRunning => pit.params.velocity > R(1, 10)
    /\ PitchDegenerateDone =>
           LET r == pit.result[1]
               release == [x |-> FDiv(pit.params.releaseSide, R(100, 1)),
                           y |-> pit.params.releaseHeight]
           IN  /\ r.points.len = 1
               /\ r.points.first = <<ReleaseSample(pit.params)>>
               /\ r.points.last = r.points.first
               /\ r.distance = 0
               /\ r.hangTime = 0
               /\ r.maxHeight = pit.params.releaseHeight
               /\ r.finalPosition = <<release>>
               /\ r.plateCrossing = <<release>>

\* C10 witness: the result of a pitch of exactly 0.1 km/h
C10_Witness ==
    /\ PitchDegenerateDone
    /\ pit.params.velocity = R(1, 10)
    /\ pit.result[1].points.len = 1

SolveConvergedDone == sol.pc = "done" /\ "i" \in DOMAIN sol /\ sol.i < SolveMaxIter

\* C12: when an iteration finds both plate errors below 0.0005, the solver
\* returns exactly the angles of that iteration's simulation, whose plate
\* crossing is within 0.5 mm of the target on both axes.
C12_ConvergedAngles ==
    /\ [][sol.pc = "sim" /\ sol'.pc = "break" =>
              LET crossing == pit.result[1].plateCrossing[1]
              IN  /\ pit.params = sol.currentParams
                  /\ Abs(sol.targetX - crossing.x) < SolveTolerance
                  /\ Abs(sol.targetY - crossing.y) < SolveTolerance
                  /\ sol'.hAngle = sol.currentParams.hAngle
                  /\ sol'.vAngle = sol.currentParams.vAngle]_vars
    /\ [][sol.pc = "sim" /\ sol'.pc = "iter" =>
              LET crossing == pit.result[1].plateCrossing[1]
              IN  \/ Abs(sol.targetX - crossing.x) >= SolveTolerance
                  \/ Abs(sol.targetY - crossing.y) >= SolveTolerance]_vars
    /\ [](sol.pc = "break" =>
              /\ sol.hAngle = sol.currentParams.hAngle
              /\ sol.vAngle = sol.currentParams.vAngle)
    /\ [](SolveConvergedDone =>
              sol.result = << [hAngle |-> sol.currentParams.hAngle,
                               vAngle |-> sol.currentParams.vAngle] >>)

\* C12 witness: a call that converged after it had corrected its first estimate
C12_Witness ==
    /\ SolveConvergedDone
    /\ sol.i > 0
    /\ sol.result[1].vAngle # 0

\* C13: the angles that solvePitchAngles returns for the plate crossing of a
\* simulated pitch (velocity > 0.1, known angles) reproduce that crossing
\* within 0.5 mm on both axes.
C13_RoundTrip ==
    trip.pc = "done" =>
        /\ Abs(trip.target.x - trip.crossing.x) < SolveTolerance
        /\ Abs(trip.target.y - trip.crossing.y) < SolveTolerance

\* a round trip that does reproduce the crossing
C13_Reproduced ==
    /\ trip.pc = "done"
    /\ trip.converged
    /\ Abs(trip.target.x - trip.crossing.x) < SolveTolerance
    /\ Abs(trip.target.y - trip.crossing.y) < SolveTolerance

\* the state of the coming step after its integration, before its collisions
BatIncoming == BatIntegrate(bat)

\* the same after the wall collision
BatReflected == BatWall(BatIncoming, bat.x, bat.z)

\* the coming step reflects the ball off a wall segment
WallHit == bat.pc = "loop" /\ BatLoopCond(bat) /\ BatReflected.walls = bat.walls + 1

\* the inward normal of the wall segment that the coming step crosses
HitNormal ==
    WallNormal(WALL_SEGMENTS[HitSegment(bat.x, bat.z, BatIncoming.x, BatIncoming.z)])

\* the rounding allowed in a comparison of computed speeds, 0.001 m/s: the
\* components of a unit normal are rounded to 0.00001 and multiplied by speeds
\* of tens of m/s
SpeedTolerance == R(1, 1000)

HorizontalSpeed(s) == FSqrt(FMul(s.vx, s.vx) + FMul(s.vz, s.vz))

\* the speed that rolling friction takes off in one step, MU_ROLLING * GRAVITY * dt
RollLoss == FMul(FMul(MU_ROLLING, GRAVITY), BatDt)

\* the wind speed of the run
WindSpeed(s) == Hypot(s.wx, s.wz)

\* the strongest wind the drag of which stays below the rolling friction:
\* 0.5 * 1.225 * 0.3 * BALL_AREA / 0.145 * w^2 < 0.25 * 9.81 up to w = 21.2 m/s;
\* the wind slider ends at 20 m/s
MaxRollingWind == R(21, 1)

\* the ball was left on the ground by the rolling branch
Rolling == bat.pc = "loop" /\ bat.rolls > 0 /\ bat.y = 0 /\ bat.vy = 0

\* the coming step meets the ground with |vy| < 1.0: the rolling branch
RollingContact ==
    /\ bat.pc = "loop" /\ BatLoopCond(bat)
    /\ OnGround(BatReflected)
    /\ Abs(BatReflected.vy) < R(1, 1)

\* the rolling branch stops the ball exactly when the horizontal speed at the
\* ground contact is at most STOP_VELOCITY + RollLoss; the loop is then left
StopRule ==
    [][RollingContact =>
           IF HorizontalSpeed(BatReflected) <= STOP_VELOCITY + RollLoss
           THEN bat'.pc = "break" /\ bat'.vx = 0 /\ bat'.vz = 0 /\ bat'.t = bat.t + BatDt
           ELSE bat'.pc = "loop" /\ bat'.rolls = bat.rolls + 1]_vars

\* C15 as stated: a rolling ball's horizontal speed does not increase from one
\* sample to the next, whatever the wind speed, and the run ends by the stop
\* rule at the first rolling ground contact with a horizontal speed of at
\* most 0.1 + 0.25 * 9.81 * 0.01 m/s.
C15_RollingSlowsAnyWind ==
    /\ [][Rolling => HorizontalSpeed(bat') <= HorizontalSpeed(bat)]_vars
    /\ StopRule

\* C15 amended: the same for wind speeds up to 21 m/s; a stronger tail wind
\* pushes the rolling ball harder than friction holds it.
C15_RollingSlows ==
    /\ [][Rolling /\ WindSpeed(bat) <= MaxRollingWind =>
              HorizontalSpeed(bat') <= HorizontalSpeed(bat)]_vars
    /\ StopRule

\* C15 witness: a ball that rolled in the wind was stopped by the stop rule
C15_Witness ==
    /\ bat.pc = "break"
    /\ bat.rolls > 1
    /\ bat.vx = 0 /\ bat.vz = 0
    /\ WindSpeed(bat) > 0

\* C16 as stated: at every ground bounce after the first, the peak height
\* sampled since the previous bounce is strictly less than the peak sampled
\* before that previous bounce.
C16_PeaksDecrease ==
    BatActive /\ Len(bat.peaks) = 2 => bat.peaks[1] < bat.peaks[2]

\* C16 amended: the same from the second rebound on, and for the first
\* rebound when the ball was not launched downward; a ball hit into the
\* ground rebounds higher than the 0.5 m it was launched from.
C16_PeaksDecreaseAfterRise ==
    BatActive /\ Len(bat.peaks) = 2 /\ (bat.bounces > 2 \/ bat.launchAngleDeg >= 0)
        => bat.peaks[1] < bat.peaks[2]

\* C16 witness: a ball launched upwards has bounced three times
C16_Witness ==
    /\ BatRunning
    /\ bat.bounces = 3
    /\ bat.launchAngleDeg > 0
    /\ bat.peaks[1] > 0

\* a call of solvePitchAngles with velocity > 0.1 has returned
SolveLoopDone == sol.pc = "done" /\ "sims" \in DOMAIN sol

\* C18: a call of solvePitchAngles with velocity > 0.1 calls
\* calculatePitchTrajectory at least once and at most 10 times; an iteration
\* whose plate errors are both below 0.0005 ends the loop with the angles
\* untouched and no further simulation, and every other iteration adds
\* 2.5 times each error to its angle.
C18_SolverIterations ==
    /\ [](SolveRunning => sol.sims <= SolveMaxIter /\ sol.sims >= sol.i)
    /\ [](SolveLoopDone => sol.sims >= 1 /\ sol.sims <= SolveMaxIter)
    /\ [][SolveRunning /\ pit.pc = "idle" /\ pit'.pc # "idle" =>
              sol'.sims = sol.sims + 1 /\ sol.sims = sol.i]_vars
    /\ [][sol.pc = "sim" /\ sol'.pc # "sim" =>
              LET result == pit.result[1]
                  crossing == IF result.plateCrossing # <<>>
                              THEN result.plateCrossing[1]
                              ELSE result.finalPosition[1]
                  errorX == sol.targetX - crossing.x
                  errorY == sol.targetY - crossing.y
              IN  IF Abs(errorX) < SolveTolerance /\ Abs(errorY) < SolveTolerance
                  THEN /\ sol'.pc = "break"
                       /\ sol'.hAngle = sol.hAngle /\ sol'.vAngle = sol.vAngle
                       /\ sol'.sims = sol.sims
                  ELSE /\ sol'.pc = "iter"
                       /\ sol'.hAngle = sol.hAngle + FMul(errorX, SolveGain)
                       /\ sol'.vAngle = sol.vAngle + FMul(errorY, SolveGain)
                       /\ sol'.i = sol.i + 1]_vars
    /\ [][sol.pc = "break" =>
              /\ sol'.pc = "done"
              /\ sol'.sims = sol.sims
              /\ sol'.result = << [hAngle |-> sol.hAngle, vAngle |-> sol.vAngle] >>]_vars

\* C18 witness: a call that never converged has returned after its tenth
\* simulation, the angles corrected on the way
C18_Witness ==
    /\ SolveLoopDone
    /\ sol.sims = SolveMaxIter
    /\ sol.result[1].vAngle # sol.currentParams.vAngle

\* the coming step crosses a wall segment outwards, beyond z = 60 and not
\* above the top of the wall; the ball is never sampled below the ground
OutwardCrossing ==
    /\ bat.pc = "loop" /\ BatLoopCond(bat)
    /\ HitSegment(bat.x, bat.z, BatIncoming.x, BatIncoming.z) # 0
    /\ FMul(BatIncoming.vx, HitNormal.nx) + FMul(BatIncoming.vz, HitNormal.nz) < 0
    /\ BatIncoming.z > R(60, 1)
    /\ BatIncoming.y <= WALL_HEIGHT

\* the point where the coming step meets the wall segment it crosses
HitPoint ==
    LET seg == WALL_SEGMENTS[HitSegment(bat.x, bat.z, BatIncoming.x, BatIncoming.z)]
    IN  getLineIntersection(bat.x, bat.z, BatIncoming.x, BatIncoming.z,
                            seg.x1, seg.z1, seg.x2, seg.z2)[1]

\* C19: a step that crosses a wall segment outwards, beyond z = 60 and at a
\* height of at most 4 m, a ball rolling or bouncing on the ground included,
\* reflects the ball, and the next sample lies 0.2 m inside the segment.
C19_FenceHolds ==
    [][OutwardCrossing =>
           /\ bat'.walls = bat.walls + 1
           /\ bat'.x = HitPoint.x + FMul(HitNormal.nx, R(2, 10))
           /\ bat'.z = HitPoint.z + FMul(HitNormal.nz, R(2, 10))]_vars

\* the true spin of the pitch is zero: no spin, or none of it effective
NoTrueSpin == pit.params.spinRate = 0 \/ pit.params.spinEfficiency = 0

\* the Magnus acceleration of the coming step, axMag and ayMag
MagnusAccel == PitchAccel(pit)

\* C20: the break of the samples is the double time integral of the Magnus
\* acceleration alone, in cm: the first sample has breakX = breakY = 0, each
\* integrated step adds axMag * dt to the break velocity and that velocity
\* times dt to the break, each sample holds 100 times the break, and with no
\* true spin (spinRate = 0 or spinEfficiency = 0) every sample has
\* breakX = breakY = 0.
C20_BreakIsMagnus ==
    /\ [](PitchRunning /\ pit.points.len > 0 =>
              /\ pit.points.first[1].breakX = 0
              /\ pit.points.first[1].breakY = 0)
    /\ [](pit.pc = "done" /\ pit.result[1].points.len > 0 =>
              /\ pit.result[1].points.first[1].breakX = 0
              /\ pit.result[1].points.first[1].breakY = 0)
    /\ [][PitchIntegrated =>
              /\ pit'.vBreakX = pit.vBreakX + FMul(MagnusAccel.axMag, PitchDt)
              /\ pit'.vBreakY = pit.vBreakY + FMul(MagnusAccel.ayMag, PitchDt)
              /\ pit'.currentBreakX = pit.currentBreakX + FMul(pit'.vBreakX, PitchDt)
              /\ pit'.currentBreakY = pit.currentBreakY + FMul(pit'.vBreakY, PitchDt)
              /\ pit'.points.last[1].breakX = FMul(pit.currentBreakX, R(100, 1))
              /\ pit'.points.last[1].breakY = FMul(pit.currentBreakY, R(100, 1))]_vars
    /\ [](PitchRunning /\ NoTrueSpin /\ pit.points.len > 0 =>
              /\ pit.points.last[1].breakX = 0
              /\ pit.points.last[1].breakY = 0)
    /\ [](pit.pc = "done" /\ NoTrueSpin =>
              /\ pit.result[1].points.last[1].breakX = 0
              /\ pit.result[1].points.last[1].breakY = 0)

\* C20 witness: a pitch thrown with spin of which nothing is effective has
\* reached the catcher
C20_Witness ==
    /\ pit.pc = "done"
    /\ pit.params.spinRate > 0
    /\ pit.params.spinEfficiency = 0
    /\ pit.result[1].points.len > 100
    /\ pit.result[1].points.last[1].breakX = 0
    /\ pit.result[1].points.last[1].z < 0

\* the difference that rounding the derived field to one decimal can make
\* between spinEfficiency and cos(gyroDegree) * 100: 0.05 when the
\* efficiency is derived, 100 * sin(gyro) * 0.05 degrees < 0.09 when the gyro
\* degree is
SyncTolerance == R(1, 10)

\* the pitching parameters that handlePitchingChange has returned
UiCommitted == ui.pc = "idle" /\ ui.edits > 0

\* the coming pitch step does not depend on the gyroDegree of the parameters
IgnoresGyro ==
    \A g \in {0, R(45, 1), R(90, 1)} :
        PitchBody([pit EXCEPT !.params.gyroDegree = g])
            = [PitchBody(pit) EXCEPT !.params.gyroDegree = g]

\* C17: in every state that handlePitchingChange returns, spinEfficiency
\* equals cos(gyroDegree) * 100 up to the rounding of the derived field to
\* one decimal; and the simulation reads spinEfficiency, never gyroDegree.
C17_SpinGyroConsistent ==
    /\ UiCommitted =>
           Abs(ui.params.spinEfficiency
               - FMul(Cos(DegToRad(ui.params.gyroDegree)), R(100, 1))) <= SyncTolerance
    /\ pit.pc = "loop" /\ "gyroDegree" \in DOMAIN pit.params => IgnoresGyro

\* the fields of the pitching parameters
PitchingFields == DOMAIN DefaultPitchingParams

AngleFields == {"hAngle", "vAngle"}

TargetFields == {"targetX", "targetY"}

\* the step ui -> ui' is the return of handlePitchingChange: ui.params is
\* the state before the edit, ui'.params the state after it
UiReturns == ui'.pc = "idle" /\ ui'.edits > 0 /\ ui' # ui

\* C21: an edit of a field other than hAngle and vAngle leaves targetX and
\* targetY as they were, but for the edited target itself; an edit of a
\* target calls the solver with the new state and its target and stores the
\* returned angles (to two decimals); an edit of another field does the same
\* with the stored target when the new velocity is > 0.1, and leaves both
\* angles as they were and calls nothing when it is not.
C21_OtherEditsKeepTarget ==
    /\ [][UiReturns /\ ui'.key \notin AngleFields =>
              LET k == ui'.key
                  solved == /\ ui.pc = "solve" /\ sol.pc = "done"
                            /\ ui'.params.hAngle = ToFixed2(sol.result[1].hAngle)
                            /\ ui'.params.vAngle = ToFixed2(sol.result[1].vAngle)
                  kept == /\ ui.pc = "idle"
                          /\ ui'.params.hAngle = ui.params.hAngle
                          /\ ui'.params.vAngle = ui.params.vAngle
              IN  /\ \A f \in TargetFields \ {k} : ui'.params[f] = ui.params[f]
                  /\ ui'.params[k] = ui'.value
                  /\ IF k \in TargetFields \/ ui'.params.velocity > R(1, 10)
                     THEN solved
                     ELSE kept]_vars
    /\ [][ui.pc = "idle" /\ ui'.pc = "solve" =>
              LET newState == ui'.newState[1]
              IN  /\ ui'.key \notin AngleFields
                  /\ ui'.key \in TargetFields \/ newState.velocity > R(1, 10)
                  /\ \A f \in TargetFields \ {ui'.key} : newState[f] = ui.params[f]
                  /\ newState[ui'.key] = ui'.value
                  /\ sol' = SolveStart(newState, newState.targetX, newState.targetY)]_vars
    /\ [](ui.pc = "solve" /\ SolveRunning =>
              /\ sol.targetX = ui.newState[1].targetX
              /\ sol.targetY = ui.newState[1].targetY
              /\ \A f \in PitchingFields \ AngleFields :
                     sol.currentParams[f] = ui.newState[1][f])
    /\ [](ui.pc = "solve" => bat.pc = "idle" /\ (pit.pc # "idle" => sol.pc = "sim"))

\* C21 witness: the edit of targetX has returned with angles solved for the
\* new target
C21_Witness ==
    /\ UiCommitted
    /\ ui.key = "targetX"
    /\ ui.params.targetX = ui.value
    /\ ui.params.targetX # DefaultPitchingParams.targetX
    /\ ui.params.targetY = DefaultPitchingParams.targetY
    /\ ui.params.hAngle # DefaultPitchingParams.hAngle

\* C22: an edit of hAngle or vAngle keeps the entered angle, leaves the
\* other angle and every other field but the target as they were, calls one
\* simulation of the new state and never the solver, and sets targetX and
\* targetY to the plate crossing of that simulation.
C22_AngleEditMovesTarget ==
    /\ [][UiReturns /\ ui'.key \in AngleFields =>
              /\ ui.pc = "simulate" /\ pit.pc = "done"
              /\ ui'.params[ui'.key] = ui'.value
              /\ \A f \in PitchingFields \ (TargetFields \cup {ui'.key}) :
                     ui'.params[f] = ui.params[f]
              /\ pit.params = [ui.params EXCEPT ![ui'.key] = ui'.value]
              /\ ui'.params.targetX = pit.result[1].plateCrossing[1].x
              /\ ui'.params.targetY = pit.result[1].plateCrossing[1].y]_vars
    /\ [][ui.pc = "idle" /\ ui'.pc = "simulate" =>
              /\ ui'.key \in AngleFields
              /\ pit' = PitchStart([ui.params EXCEPT ![ui'.key] = ui'.value])]_vars
    /\ [][ui.pc = "simulate" /\ ui'.pc = "simulate" =>
              pit'.params = pit.params /\ pit'.pc # "idle"]_vars
    /\ [](ui.pc = "simulate" => sol.pc = "idle" /\ bat.pc = "idle" /\ pit.pc # "idle")

\* C22 witness: the edit of hAngle has returned with the target moved to the
\* plate crossing of the new pitch
C22_Witness ==
    /\ UiCommitted
    /\ ui.key = "hAngle"
    /\ ui.params.hAngle = ui.value
    /\ ui.params.vAngle = DefaultPitchingParams.vAngle
    /\ ui.params.targetX # DefaultPitchingParams.targetX
    /\ ui.params.velocity > R(1, 10)

\* C28: in every returned TrajectoryResult, of a batted or of a pitched
\* ball, maxHeight is the greatest y of all the samples of points, the last
\* one included.
C28_MaxHeightIsTop ==
    /\ bat.pc = "done" => bat.result[1].maxHeight = bat.result[1].points.top
    /\ pit.pc = "done" => pit.result[1].maxHeight = pit.result[1].points.top

\* C29: in every returned TrajectoryResult, of a batted or of a pitched
\* ball, hangTime is the t of the last sample of points.
C29_HangTimeIsLastSample ==
    /\ bat.pc = "done" => bat.result[1].hangTime = bat.result[1].points.last[1].t
    /\ pit.pc = "done" => pit.result[1].hangTime = pit.result[1].points.last[1].t

\* C30: once a step has taken the rolling branch, the ball stays on the
\* ground: every later sample has y = 0, and every later step meets the
\* ground with |vy| < 1.0 and takes the rolling branch again, neither
\* bouncing nor reflecting, until the stop rule or the 20 s cap ends the run.
C30_RollingStaysDown ==
    /\ [](BatActive /\ bat.rolls > 0 => bat.y = 0 /\ bat.points.last[1].y >= 0)
    /\ [][bat.pc = "loop" /\ bat.rolls > 0 /\ bat'.pc # "idle" =>
              /\ bat'.bounces = bat.bounces
              /\ bat'.walls = bat.walls
              /\ bat'.pc = "loop" =>
                     /\ RollingContact
                     /\ bat'.rolls = bat.rolls + 1
                     /\ bat'.points.last[1].y = 0
                     /\ bat'.y = 0 /\ bat'.vy = 0
              /\ bat'.pc = "break" => RollingContact /\ bat'.vx = 0 /\ bat'.vz = 0
              /\ bat'.pc = "done" => ~BatLoopCond(bat)]_vars

\* C30 witness: a ball that had bounced has been rolling for two seconds
C30_Witness ==
    /\ bat.pc = "loop"
    /\ bat.bounces > 0
    /\ bat.rolls > 200
    /\ bat.y = 0
    /\ HorizontalSpeed(bat) > 0

\* C23: the timer of the loop restart never restarts a playback that is in
\* progress: a timer that increments simulationTrigger finds the scene idle,
\* and a timer that was pending when Stop was pressed does not increment
\* simulationTrigger after a later Play.
C23_TimerNeverRestartsRunning ==
    [][app'.last = "timeout" /\ app'.simulationTrigger > app.simulationTrigger =>
           /\ app.playbackState = "idle"
           /\ ~Head(app.timers).stopped]_vars


\* C24: after handleStop, and until Play is pressed again, isPlaying stays
\* false and simulationTrigger is not incremented, whether a pending timer
\* fires or the running animation completes.
C24_StopHolds ==
    /\ [](app.stopped => ~app.isPlaying /\ ~app.isLooping)
    /\ [][app.stopped /\ app'.stopped =>
              app'.simulationTrigger = app.simulationTrigger]_vars

\* C24 witness: a timer that was pending at the Stop has fired, no Play since
C24_Witness ==
    /\ app.stopped
    /\ app.last = "timeout"
    /\ app.simulationTrigger > 0


\* C25: the scene leaves 'idle' only in response to an increment of
\* simulationTrigger: once simulationTrigger > 0, a change of mode or of a
\* velocity without a new trigger does not start a playback.
C25_OnlyTriggerStarts ==
    [][app.playbackState = "idle" /\ app'.playbackState # "idle" =>
           app'.simulationTrigger > app.simulationTrigger]_vars


\* C26: every playback that has started completes: while frames keep
\* rendering, the scene that has left 'idle' returns to 'idle' (where
\* onAnimationComplete is invoked), whatever the trajectory, the one sample
\* of a pitch with velocity <= 0.1 included.
C26_PlaybackCompletes ==
    (app.playbackState # "idle") ~> (app.playbackState = "idle")

\* the scene does not stay out of 'idle' for ever while its trajectory has
\* more than one sample
PlaybackCompletesUnlessOneSample ==
    []<>(app.playbackState = "idle") \/ <>[](app.points.len <= 1)


\* a step of useFrame along the order of the phases: a pitch goes from
\* normal to waiting, from waiting to slow once more than 1 s has passed,
\* and from slow to idle; a batted ball goes from normal to idle
PhaseOrder ==
    \/ /\ app.mode = "pitching"
       /\ app.playbackState = "normal" /\ app'.playbackState = "waiting"
    \/ /\ app.mode = "pitching"
       /\ app.playbackState = "waiting" /\ app'.playbackState = "slow"
       /\ Elapse(app).startTime[1] > WaitDelay
    \/ /\ app.mode = "pitching"
       /\ app.playbackState = "slow" /\ app'.playbackState = "idle"
    \/ /\ app.mode = "batting"
       /\ app.playbackState = "normal" /\ app'.playbackState = "idle"

\* the playback effect has run and has begun a playback
PlaybackBegins ==
    /\ app'.effect # app.effect
    /\ app'.simulationTrigger > 0
    /\ app'.playbackState = "normal"
    /\ app'.startTime = <<>>

\* onAnimationComplete is invoked in this step
CompleteInvoked == app' # app /\ app'.last = "complete"

\* onAnimationComplete is invoked at the steps into idle and at no other
CompleteAtIdle ==
    CompleteInvoked <=> app.playbackState # "idle" /\ app'.playbackState = "idle"

\* C27 as stated: the phases of every playback follow the fixed order and
\* onAnimationComplete is invoked exactly once per playback, at the step into
\* idle: a playback begins at idle, and the phase changes only along the order.
C27_FixedOrderOncePerPlayback ==
    [][/\ PlaybackBegins => app.playbackState = "idle"
       /\ app'.playbackState # app.playbackState =>
              PhaseOrder \/ (app.playbackState = "idle" /\ PlaybackBegins)
       /\ CompleteAtIdle]_vars

\* C27: the phase changes only along the fixed order (pitching: normal,
\* waiting for more than 1 s, slow, idle; batting: normal, idle) or back to
\* normal when the effect begins a playback, which it may do while another
\* is in progress; onAnimationComplete is invoked at the step into idle and
\* at no other, so at most once per playback and never at normal -> waiting
\* or waiting -> slow.
C27_FixedOrderOrRestart ==
    [][/\ app'.playbackState # app.playbackState => PhaseOrder \/ PlaybackBegins
       /\ CompleteAtIdle]_vars

\* C27 witness: the slow replay of a pitch has ended and onAnimationComplete
\* has been invoked
C27_Witness ==
    /\ app.mode = "pitching"
    /\ app.playbackState = "idle"
    /\ app.last = "complete"
    /\ app.points.len > 1
=============================================================================
